---- MODULE Spec2Model ----
(***************************************************************************)
(* The provisioning orchestrator of iam-looker                             *)
(* (src/src/iam_looker/provisioner.py, class LookerProvisioner) run        *)
(* against the stateful fake of the remote platform used by its tests     *)
(* (src/tests/test_provisioner.py, class MockSDK).                         *)
(*                                                                         *)
(* One action per remote call of a provision run: the action performs the  *)
(* call and all the local code that follows it up to the next remote call. *)
(* Strings built by f-strings are sequences of tokens, so that a derived   *)
(* title or folder name is a real concatenation.                           *)
(***************************************************************************)
EXTENDS Integers, Sequences, FiniteSets, TLC

\* ------------------------------------------------------------------ bounds
\* Number of provision invocations in one behaviour.
MaxRuns == 2
\* Longest streak of consecutive failing remote calls the platform produces.
MaxOutage == 2

\* Inputs the invocations are drawn from ("" is the missing value).
ProjectIds == {"", "demo-project"}
GroupEmails == {"", "analysts@company.com", "team@company.com"}
TemplateLists == {<<>>, <<1>>, <<2>>, <<1, 2>>, <<2, 1>>}

\* First id handed out by MockSDK.dashboard_copy (len(self.dashboards) + 100).
DashboardIdBase == 100

NoId == 0
NoResult == [status |-> "none"]

VARIABLES
    groups,       \* MockSDK.groups: sequence of [id, name]
    folders,      \* MockSDK.folders: sequence of [id, name]
    dashboards,   \* MockSDK.dashboards: sequence of [id, title, folder_id]
    saml_cfg,     \* MockSDK.saml_cfg.groups: sequence of [name, id]
    downFor,      \* number of upcoming remote calls that raise
    pc,           \* the remote call the run is about to issue, or its end
    loc,          \* arguments and local variables of the provision run
    calls,        \* remote calls issued by the current run, in order
    steps,        \* operations invoked by the current run, in order
    runs,         \* number of provision invocations so far
    prev,         \* inputs and outcome of the previous invocation
    start,        \* remote state when the current run began
    failed,       \* inputs of the runs that ended with ProvisioningError
    issued,       \* every create_group / create_folder call issued so far
    scheduled_plans, \* MockSDK.scheduled_plans: sequence of [id, dashboard_id]
    plans_created,   \* number of scheduled plans created so far
    dpc,          \* the remote call decommission_project is about to issue
    dloc,         \* arguments and local variables of decommission_project
    dcalls,       \* remote calls issued by the current decommission_project
    decoms,       \* number of decommission_project invocations so far
    w,            \* the concurrent add_group_to_saml invocations
    group_users,  \* MockSDK.group_users: group id -> sequence of user ids
    connections,  \* MockSDK.connections: sequence of [name]
    direct,       \* create_connection / create_scheduled_plan: invocations so
                  \* far and the remote calls of the last one
    member,       \* the add_user_to_group invocation: position, locals, calls
    handler,      \* the request handler invocation: event, position, response
    users,        \* MockSDK.users: sequence of [id, email, role_ids]
    bulk,         \* the bulk_provision_users invocation: position, locals, calls
    twin          \* the provision run the current one is compared with

remote == <<groups, folders, dashboards, saml_cfg>>
\* What the membership, connection and request handler operations own.
more == <<users, bulk, twin>>
rest == <<group_users, connections, member, handler, more>>
\* What the operations outside provision own.
ext == <<scheduled_plans, plans_created, dpc, dloc, dcalls, decoms, w, direct, rest>>
vars == <<groups, folders, dashboards, saml_cfg, downFor, pc, loc, calls,
          steps, runs, prev, start, failed, issued, ext>>

\* ------------------------------------------------------------ sequences
RECURSIVE Filter(_, _)
Filter(s, keep) ==
    IF s = <<>> THEN <<>>
    ELSE IF Head(s) \in keep THEN <<Head(s)>> \o Filter(Tail(s), keep)
         ELSE Filter(Tail(s), keep)

Range(s) == {s[i] : i \in 1..Len(s)}

IsPrefix(s, t) == Len(s) <= Len(t) /\ \A i \in 1..Len(s) : s[i] = t[i]

\* ------------------------------------------------- the remote platform
\* MockSDK.search_groups / search_folders: exact match on name, in order.
search_groups(name) == Filter(groups, {g \in Range(groups) : g.name = name})

search_folders_any(name) == folders

search_folders(name) == Filter(folders, {f \in Range(folders) : f.name = name})

\* MockSDK.search_dashboards(title=...): exact match on title, in order.
search_dashboards(title) ==
    Filter(dashboards, {d \in Range(dashboards) : d.title = title})

\* MockSDK.create_group / create_folder: id = len + 1.
create_group(body) == [id |-> Len(groups) + 1, name |-> body.name]

create_folder(body) == [id |-> Len(folders) + 1, name |-> body.name]

\* MockSDK.dashboard_copy: id = len + 100, title = body["name"].
dashboard_copy(body) ==
    [id |-> Len(dashboards) + DashboardIdBase, title |-> body.name,
     folder_id |-> body.folder_id]

\* MockSDK.dashboard: the template's title is "Template {id}"; dashboard 3 of
\* the platform is a second template titled "Template 1".
TemplateTitle(template_dashboard_id) ==
    IF template_dashboard_id = 3 THEN <<"Template", 1>>
    ELSE <<"Template", template_dashboard_id>>

\* A remote call raises while the platform is down.
RemoteFails == downFor > 0

Consume == downFor' = IF downFor > 0 THEN downFor - 1 ELSE 0

Logged(m) == calls' = Append(calls, [m |-> m, ok |-> ~RemoteFails])

\* ------------------------------------------------------ the provisioner
\* f"Project: {project_id}"
FolderName(project_id) == <<"Project:", project_id>>

\* f"{base_title} (project: {project_id})"
DesiredTitle(base_title, project_id) ==
    base_title \o <<"(project:", project_id, ")">>

\* `if existing:` - the search found an entity to reuse.
Found_never(existing) == FALSE

Found(existing) == existing # <<>>

\* `if gid is None` / `if fid is None` / `if did is None`.
MissingId_never(id) == FALSE

MissingId(id) == id = NoId

\* `return int(gid)` raises ValueError: the id is not the text of an integer
\* (such ids are the negative numbers here).
NotInt(id) == id < 0

\* ensure_saml_group_mapping: `for g in groups_field: if g.name == group_email`.
Mapped_never(groups_field, group_email) == FALSE

Mapped(groups_field, group_email) ==
    \E i \in 1..Len(groups_field) : groups_field[i].name = group_email

\* provision: `if not project_id or not group_email`.
Invalid_projectOnly(project_id, group_email) == project_id = ""

Invalid(project_id, group_email) == project_id = "" \/ group_email = ""

\* No operation is wrapped in a retry: an error raised on attempt n of an
\* operation is never followed by another attempt.
Retry_any3(e, n) == n < 3

Retry(e, n) == FALSE

RECURSIVE AttemptsOf(_, _)
AttemptsOf(e, n) == IF Retry(e, n) THEN AttemptsOf(e, n + 1) ELSE n

\* provision has no try/except around its steps.
ProvisionCatches_clone(op) == op = "clone_dashboard_if_missing"

ProvisionCatches(op) == FALSE

\* provision: the order of the steps; `remaining` is the number of template
\* ids the loop has not yet visited.
StepAfter_folderFirst(op, remaining) ==
    CASE op = "provision" -> "ensure_group"
      [] op = "ensure_group" -> "ensure_project_folder"
      [] op = "ensure_project_folder" -> "ensure_saml_group_mapping"
      [] OTHER -> IF remaining > 0 THEN "clone_dashboard_if_missing" ELSE "return"

StepAfter(op, remaining) ==
    CASE op = "provision" -> "ensure_group"
      [] op = "ensure_group" -> "ensure_saml_group_mapping"
      [] op = "ensure_saml_group_mapping" -> "ensure_project_folder"
      [] OTHER -> IF remaining > 0 THEN "clone_dashboard_if_missing" ELSE "return"

\* The first remote call of each operation.
FirstCall(op) ==
    CASE op = "ensure_group" -> "search_groups"
      [] op = "ensure_saml_group_mapping" -> "saml_config"
      [] op = "ensure_project_folder" -> "search_folders"
      [] op = "clone_dashboard_if_missing" -> "dashboard"

\* The arguments provision passes to each operation.
StepArgs(op, l) ==
    CASE op = "ensure_group" -> <<l.group_email>>
      [] op = "ensure_saml_group_mapping" -> <<l.group_id, l.group_email>>
      [] op = "ensure_project_folder" -> <<l.project_id>>
      [] op = "clone_dashboard_if_missing" ->
            <<l.template_dashboard_ids[l.idx], l.folder_id, l.project_id>>

\* ensure_saml_group_mapping: {"groups": [*list(groups_field), new_group_entry]}
update_body_onlyNew(groups_field, new_group_entry) == <<new_group_entry>>

update_body(groups_field, new_group_entry) == Append(groups_field, new_group_entry)

\* provision: the returned mapping.
Result_keyed(l, correlation_id) ==
    [status |-> "ok",
     projectId |-> l.project_id,
     groupEmail |-> l.group_email,
     groupId |-> l.group_id,
     folderId |-> l.folder_id,
     dashboardIds |-> l.cloned_ids \o <<correlation_id>>,
     correlationId |-> correlation_id]

Result(l, correlation_id) ==
    [status |-> "ok",
     projectId |-> l.project_id,
     groupEmail |-> l.group_email,
     groupId |-> l.group_id,
     folderId |-> l.folder_id,
     dashboardIds |-> l.cloned_ids,
     correlationId |-> correlation_id]

Request(l) == <<l.project_id, l.group_email, l.template_dashboard_ids>>

Mark(st, out) == [st EXCEPT ![Len(st)].out = out]

Begin(st, op, l) == Append(st, [op |-> op, args |-> StepArgs(op, l), out |-> "running"])

\* Control returns to provision after operation `op`; l holds what provision
\* has stored so far and st the operations invoked so far.
Proceed(op, l, st) ==
    LET next == StepAfter(op, Len(l.template_dashboard_ids) + 1 - l.idx) IN
    IF next = "return"
    THEN /\ pc' = "returned"
         /\ loc' = [l EXCEPT !.result = Result(l, runs)]
         /\ steps' = st
    ELSE /\ pc' = FirstCall(next)
         /\ loc' = [l EXCEPT !.attempts = 1]
         /\ steps' = Begin(st, next, l)

\* Operation `op` returns; l already holds its value.
Returned(op, l) == Proceed(op, l, Mark(steps, "returned"))

\* Operation `op` raises error e.
Raised(op, e) ==
    IF Retry(e, loc.attempts)
    THEN /\ pc' = FirstCall(op)
         /\ loc' = [loc EXCEPT !.attempts = @ + 1]
         /\ steps' = steps
    ELSE IF ProvisionCatches(op)
    THEN Proceed(op, [loc EXCEPT !.idx = IF op = "clone_dashboard_if_missing"
                                          THEN @ + 1 ELSE @],
                 Mark(steps, "raised"))
    ELSE /\ pc' = "raised"
         /\ loc' = [loc EXCEPT !.err = e]
         /\ steps' = Mark(steps, "raised")

\* ------------------------------------------ concurrent add_group_to_saml
\* Number of add_group_to_saml invocations running at the same time.
NumWorkers == 2

Workers == 1..NumWorkers

\* An invocation: its position, its event, what its calls answered and the
\* status of the result it returned.
IdleWorker ==
    [pc |-> "idle", group_email |-> "", existing |-> <<>>, created |-> FALSE,
     gid |-> NoId, groups_field |-> <<>>, updated |-> FALSE, status |-> "none",
     event |-> <<>>]


\* --------------------------------------------------- decommission_project
\* Number of decommission_project invocations in one behaviour.
MaxDecoms == 2
\* Number of scheduled plans created in one behaviour.
MaxPlans == 2

\* decommission_project: the results mapping as first built.
NoResults_archived(project_id) ==
    [projectId |-> project_id, archived_folder |-> TRUE,
     deleted_dashboards |-> 0, deleted_schedules |-> 0]

NoResults(project_id) ==
    [projectId |-> project_id, archived_folder |-> FALSE,
     deleted_dashboards |-> 0, deleted_schedules |-> 0]

NoDecommission ==
    [project_id |-> "", archive_folder |-> FALSE, delete_dashboards |-> FALSE,
     delete_schedules |-> FALSE, folder_id |-> NoId, dashboards |-> <<>>, i |-> 1,
     schedules |-> <<>>, j |-> 1, phase |-> 0, results |-> NoResults(""),
     err |-> "none", start |-> <<>>]

\* MockSDK.search_dashboards(folder_id=...): `if folder_id:` filters, a
\* missing folder id lists every dashboard.
search_dashboards_in(folder_id) ==
    IF folder_id = NoId THEN dashboards
    ELSE Filter(dashboards, {d \in Range(dashboards) : d.folder_id = folder_id})

\* MockSDK.delete_dashboard
delete_dashboard(dashboard_id) ==
    Filter(dashboards, {d \in Range(dashboards) : d.id # dashboard_id})

\* MockSDK.scheduled_plans_for_dashboard
scheduled_plans_for_dashboard(dashboard_id) ==
    Filter(scheduled_plans, {q \in Range(scheduled_plans) : q.dashboard_id = dashboard_id})

\* MockSDK.delete_scheduled_plan
delete_scheduled_plan(schedule_id) ==
    Filter(scheduled_plans, {q \in Range(scheduled_plans) : q.id # schedule_id})

\* MockSDK.update_folder: the first folder with that id gets the new name.
update_folder(folder_id, body) ==
    IF \E k \in 1..Len(folders) : folders[k].id = folder_id
    THEN LET k == CHOOSE k \in 1..Len(folders) :
                     /\ folders[k].id = folder_id
                     /\ \A h \in 1..(k - 1) : folders[h].id # folder_id
         IN [folders EXCEPT ![k].name = body.name]
    ELSE folders

\* MockSDK.create_scheduled_plan; an id is handed out once (len + 1 as long
\* as no plan has been deleted).
create_scheduled_plan(body) ==
    [id |-> plans_created + 1, dashboard_id |-> body.dashboard_id]

\* f"Archived: {folder_name}"
ArchivedName_same(folder_name) == folder_name

ArchivedName(folder_name) == <<"Archived:">> \o folder_name

\* `if dash_id:` / `if schedule_id:`: the first entry from position k on that
\* carries an id, Len + 1 when there is none.
RECURSIVE NextWithId(_, _)
NextWithId(s, k) ==
    IF k > Len(s) THEN k
    ELSE IF s[k].id # NoId THEN k ELSE NextWithId(s, k + 1)


\* ---------------------------------------------------- add_user_to_group
\* Groups and users the membership calls are about.
GroupIds == {1, 2}

\* An add_user_to_group invocation that has not been made.
IdleMember ==
    [pc |-> "idle", group_id |-> NoId, user_id |-> NoId, existing_user_ids |-> <<>>,
     calls |-> <<>>, out |-> "none", added |-> FALSE, start |-> <<>>]

\* A bulk_provision_users invocation that has not been made.
IdleBulk ==
    [pc |-> "idle", n |-> 0, users |-> <<>>, group_id |-> NoId, i |-> 1, user_id |-> NoId,
     user_ids |-> <<>>, calls |-> <<>>, err |-> "none", at |-> "none", start |-> <<>>,
     before |-> <<>>]

\* MockSDK.create_user: id = len + 1.
create_user(body) == [id |-> Len(users) + 1, email |-> body.email, role_ids |-> <<>>]

\* MockSDK.set_user_roles: the first user with that id gets the role ids.
set_user_roles(user_id, body) ==
    IF \E k \in 1..Len(users) : users[k].id = user_id
    THEN LET k == CHOOSE k \in 1..Len(users) :
                     /\ users[k].id = user_id
                     /\ \A h \in 1..(k - 1) : users[h].id # user_id
         IN [users EXCEPT ![k].role_ids = body]
    ELSE users

\* No provision run has been kept for comparison.
NoTwin == [status |-> "none"]

\* MockSDK.delete_group: the group and its membership list are dropped.
delete_group(group_id) == Filter(groups, {g \in Range(groups) : g.id # group_id})

\* MockSDK.all_group_users
all_group_users(group_id) == group_users[group_id]

\* MockSDK.add_group_user
add_group_user(group_id, body) ==
    [group_users EXCEPT ![group_id] = Append(@, body.user_id)]

\* ------------------------------------------------------ create_connection
\* MockSDK.create_connection: the connection is appended, whatever its name.
create_connection_unique(body) ==
    IF \E i \in 1..Len(connections) : connections[i].name = body.name
    THEN connections
    ELSE Append(connections, [name |-> body.name])

create_connection(body) == Append(connections, [name |-> body.name])

\* --------------------------------------------------------- the handlers
NoError == "none"

\* settings.template_dashboard_ids: DEFAULT_TEMPLATE_DASHBOARD_IDS or [], for
\* an environment that sets no DEFAULT_TEMPLATE_DASHBOARD_IDS.
settings_template_dashboard_ids == <<>>

\* A handler invocation that has not been made; `settings` is what
\* settings.template_dashboard_ids answers in this deployment.
IdleHandler ==
    [pc |-> "idle", entry |-> "none", event |-> <<>>, available |-> FALSE,
     payload |-> <<>>, runs |-> 0, out |-> "none", exc |-> "none", response |-> <<>>,
     settings |-> settings_template_dashboard_ids]

\* The strings the events carry, and the characters they are made of.
Texts == {"", "abc", "Demo-project", "demo-project", "bad-email", "analysts@company.com", "ops@Company.com", "ops@company.com"}

Chars(str) ==
    CASE str = "" -> <<>>
      [] str = "abc" -> <<"a", "b", "c">>
      [] str = "Demo-project" -> <<"D", "e", "m", "o", "-", "p", "r", "o", "j", "e", "c", "t">>
      [] str = "demo-project" -> <<"d", "e", "m", "o", "-", "p", "r", "o", "j", "e", "c", "t">>
      [] str = "bad-email" -> <<"b", "a", "d", "-", "e", "m", "a", "i", "l">>
      [] str = "analysts@company.com" -> <<"a", "n", "a", "l", "y", "s", "t", "s", "@", "c", "o", "m", "p", "a", "n", "y", ".", "c", "o", "m">>
      [] str = "ops@Company.com" -> <<"o", "p", "s", "@", "C", "o", "m", "p", "a", "n", "y", ".", "c", "o", "m">>
      [] str = "ops@company.com" -> <<"o", "p", "s", "@", "c", "o", "m", "p", "a", "n", "y", ".", "c", "o", "m">>

\* The string made of the given characters.
Text(chars) == CHOOSE str \in Texts : Chars(str) = chars

\* Values of an event mapping: a string, a number, or no such key.
Str(v) == [t |-> "str", v |-> v]
Num(v) == [t |-> "int", v |-> v]
List(v) == [t |-> "list", v |-> v]
Missing == [t |-> "missing"]

NoFields == [projectId |-> Missing, groupEmail |-> Missing, templateDashboardIds |-> Missing]

\* event.get(key, ""): the value, "" when the key is missing.
Get(fields, key) == IF fields[key].t = "missing" THEN Str("") ELSE fields[key]

\* Events: `data` tells whether the event is the request mapping itself
\* ("none"), or an envelope whose data decodes to a mapping, decodes to a JSON
\* list, or cannot be decoded.
\* A request is well formed, or one of its fields is not, or the envelope's
\* data is no mapping.
Events ==
    LET RawProjectIds == {Missing, Num(123), Str("abc"), Str("Demo-project"),
                          Str("demo-project")}
        RawGroupEmails == {Missing, Str("bad-email"), Str("analysts@company.com"),
                           Str("ops@Company.com")}
        RawTemplateIds == {Missing, List(<<1>>)}
    IN
       {[data |-> d, fields |-> [projectId |-> Str("demo-project"),
                                 groupEmail |-> Str("ops@Company.com"),
                                 templateDashboardIds |-> t]] :
           d \in {"none", "mapping"}, t \in RawTemplateIds}
       \cup {[data |-> "mapping", fields |-> [projectId |-> p,
                                              groupEmail |-> Str("analysts@company.com"),
                                              templateDashboardIds |-> Missing]] :
                 p \in RawProjectIds \ {Str("demo-project")}}
       \cup {[data |-> "none", fields |-> [projectId |-> Str("demo-project"),
                                           groupEmail |-> g,
                                           templateDashboardIds |-> Missing]] :
                 g \in RawGroupEmails \ {Str("analysts@company.com"), Str("ops@Company.com")}}
       \cup {[data |-> d, fields |-> NoFields] : d \in {"list", "undecodable"}}

\* handler._decode_pubsub: the decoded request, or ValidationError.
_decode_pubsub(event) ==
    IF event.data = "undecodable"
    THEN [raises |-> "ValidationError", mapping |-> FALSE, fields |-> NoFields]
    ELSE [raises |-> "none", mapping |-> event.data # "list", fields |-> event.fields]

\* cloud_functions.common.decode_pubsub: the decoded request, {} when the data
\* cannot be decoded.
decode_pubsub(event) ==
    IF event.data = "undecodable"
    THEN [raises |-> "none", mapping |-> TRUE, fields |-> NoFields]
    ELSE [raises |-> "none", mapping |-> event.data # "list", fields |-> event.fields]

LowerCase == {"a", "b", "c", "d", "e", "f", "g", "h", "i", "j", "k", "l", "m",
              "n", "o", "p", "q", "r", "s", "t", "u", "v", "w", "x", "y", "z"}
Digits == {"0", "1", "2", "3", "4", "5", "6", "7", "8", "9"}

\* models.PROJECT_ID_REGEX: ^[a-z][a-z0-9-]{4,61}[a-z0-9]$
PROJECT_ID_REGEX(chars) ==
    /\ Len(chars) >= 6 /\ Len(chars) <= 63
    /\ chars[1] \in LowerCase
    /\ \A i \in 2..(Len(chars) - 1) : chars[i] \in LowerCase \cup Digits \cup {"-"}
    /\ chars[Len(chars)] \in LowerCase \cup Digits

\* str.lower on one character.
Lower(c) == CASE c = "C" -> "c" [] c = "D" -> "d" [] OTHER -> c

\* The position of the "@" of an address that holds exactly one, 0 otherwise.
AtSign(chars) ==
    LET at == {i \in 1..Len(chars) : chars[i] = "@"} IN
    IF Cardinality(at) = 1 THEN CHOOSE i \in at : TRUE ELSE 0

\* EmailStr: one "@" after a local part, a domain of labels joined by ".".
validate_email(chars) ==
    LET at == AtSign(chars) IN
    /\ at > 1
    /\ at < Len(chars)
    /\ \E i \in (at + 1)..Len(chars) : chars[i] = "."
    /\ chars[at + 1] # "." /\ chars[Len(chars)] # "."

\* EmailStr: the validated address, its domain in lower case.
EmailStr(chars) ==
    [i \in 1..Len(chars) |-> IF i > AtSign(chars) THEN Lower(chars[i]) ELSE chars[i]]

\* ProvisionPayload(**payload_dict) raises.
validate_project_id(value) == value.t = "str" /\ PROJECT_ID_REGEX(Chars(value.v))

Invalidates(decoded) ==
    \/ ~decoded.mapping
    \/ ~validate_project_id(decoded.fields.projectId)
    \/ decoded.fields.groupEmail.t # "str"
    \/ ~validate_email(Chars(decoded.fields.groupEmail.v))
    \/ /\ decoded.fields.templateDashboardIds.t # "missing"
       /\ \/ decoded.fields.templateDashboardIds.t # "list"
          \/ \E i \in 1..Len(decoded.fields.templateDashboardIds.v) :
                 decoded.fields.templateDashboardIds.v[i] <= 0

\* ProvisionPayload(**payload_dict) and
\* `payload.templateDashboardIds or settings.template_dashboard_ids`.
ProvisionPayload(fields, defaults) ==
    [projectId |-> fields.projectId.v,
     groupEmail |-> Text(EmailStr(Chars(fields.groupEmail.v))),
     templateDashboardIds |->
         IF fields.templateDashboardIds.t = "missing" \/ fields.templateDashboardIds.v = <<>>
         THEN defaults
         ELSE fields.templateDashboardIds.v]

\* ProvisionResult(...).model_dump(): every field of the model.
ProvisionResult(status, projectId, groupEmail, groupId, folderId, dashboardIds, correlationId, error) ==
    [status |-> status, projectId |-> projectId, groupEmail |-> groupEmail,
     groupId |-> groupId, folderId |-> folderId, dashboardIds |-> dashboardIds,
     correlationId |-> correlationId, error |-> error]

\* ProvisionResult(status, projectId, groupEmail, error=...): the fields that
\* are not given keep their defaults.
Failure(status, projectId, groupEmail, error) ==
    ProvisionResult(status, projectId, groupEmail, NoId, NoId, <<>>, NoId, error)

\* ProvisionResult(projectId=..., groupEmail=...) raises: a field typed str is
\* given a value that is no string.
Malformed(projectId, groupEmail) == projectId.t # "str" \/ groupEmail.t # "str"


\* ------------------------------------------------------------------ Init
Init ==
    /\ groups = <<>>
    /\ folders = <<>>
    /\ dashboards = <<>>
    /\ saml_cfg = <<>>
    /\ downFor = 0
    /\ pc = "idle"
    /\ loc = [project_id |-> "", group_email |-> "", template_dashboard_ids |-> <<>>,
              group_id |-> NoId, folder_id |-> NoId, cloned_ids |-> <<>>, idx |-> 1,
              groups_field |-> <<>>, desired_title |-> <<>>, attempts |-> 0,
              err |-> "none", result |-> NoResult]
    /\ calls = <<>>
    /\ steps = <<>>
    /\ runs = 0
    /\ prev = [status |-> "none"]
    /\ start = <<<<>>, <<>>, <<>>, <<>>>>
    /\ failed = {}
    /\ issued = <<>>
    /\ scheduled_plans = <<>>
    /\ plans_created = 0
    /\ dpc = "idle"
    /\ dloc = NoDecommission
    /\ dcalls = <<>>
    /\ decoms = 0
    /\ w = [p \in Workers |-> IdleWorker]
    /\ group_users = [g \in GroupIds |-> <<>>]
    /\ connections = <<>>
    /\ direct = [invocations |-> 0, calls |-> <<>>]
    /\ member = IdleMember
    /\ handler = IdleHandler
    /\ users = <<>>
    /\ bulk = IdleBulk
    /\ twin = NoTwin

\* --------------------------------------------------------------- actions
Ended == pc \in {"idle", "returned", "raised"}

\* provision enters with the platform in state `at`: validation, correlation
\* id, first step.
ProvisionEntry(project_id, group_email, template_dashboard_ids, at) ==
    /\ runs' = runs + 1
    /\ prev' = IF pc = "idle" THEN prev
               ELSE [status |-> pc, request |-> Request(loc), err |-> loc.err,
                     result |-> loc.result]
    /\ failed' = IF pc = "raised" /\ loc.err = "ProvisioningError"
                 THEN failed \cup {Request(loc)} ELSE failed
    /\ start' = at
    /\ calls' = <<>>
    /\ LET l == [project_id |-> project_id, group_email |-> group_email,
                 template_dashboard_ids |-> template_dashboard_ids,
                 group_id |-> NoId, folder_id |-> NoId, cloned_ids |-> <<>>,
                 idx |-> 1, groups_field |-> <<>>, desired_title |-> <<>>,
                 attempts |-> 1, err |-> "none", result |-> NoResult]
       IN IF Invalid(project_id, group_email)
          THEN /\ pc' = "raised"
               /\ loc' = [l EXCEPT !.err = "ValidationError",
                                   !.attempts = AttemptsOf("ValidationError", 1)]
               /\ steps' = <<>>
          ELSE /\ pc' = FirstCall(StepAfter("provision", Len(template_dashboard_ids)))
               /\ loc' = l
               /\ steps' = Begin(<<>>, StepAfter("provision", Len(template_dashboard_ids)), l)

\* provision(project_id, group_email, template_dashboard_ids).
Provision(project_id, group_email, template_dashboard_ids) ==
    /\ Ended
    /\ runs < MaxRuns
    /\ ProvisionEntry(project_id, group_email, template_dashboard_ids, remote)
    /\ UNCHANGED <<groups, folders, dashboards, saml_cfg, downFor, issued, ext>>

\* ensure_group: sdk.search_groups(name=group_email) and the reuse branch.
SearchGroups ==
    /\ pc = "search_groups"
    /\ Logged("search_groups") /\ Consume
    /\ IF RemoteFails THEN Raised("ensure_group", "ProvisioningError")
       ELSE LET existing == search_groups(loc.group_email) IN
            IF Found(existing)
            THEN IF MissingId(existing[1].id)
                 THEN Raised("ensure_group", "ProvisioningError")
                 ELSE IF NotInt(existing[1].id)
                 THEN Raised("ensure_group", "ValueError")
                 ELSE Returned("ensure_group", [loc EXCEPT !.group_id = existing[1].id])
            ELSE pc' = "create_group" /\ UNCHANGED <<loc, steps>>
    /\ UNCHANGED <<groups, folders, dashboards, saml_cfg, runs, prev, start, failed, issued, ext>>

\* ensure_group: sdk.create_group(body={"name": group_email}).
CreateGroup ==
    /\ pc = "create_group"
    /\ Logged("create_group") /\ Consume
    /\ issued' = Append(issued, [m |-> "create_group", name |-> loc.group_email,
                                 ok |-> ~RemoteFails])
    /\ IF RemoteFails
       THEN Raised("ensure_group", "ProvisioningError") /\ UNCHANGED groups
       ELSE LET created == create_group([name |-> loc.group_email]) IN
            /\ groups' = Append(groups, created)
            /\ Returned("ensure_group", [loc EXCEPT !.group_id = created.id])
    /\ UNCHANGED <<folders, dashboards, saml_cfg, runs, prev, start, failed, ext>>

\* ensure_saml_group_mapping: sdk.saml_config() and the membership test.
SamlConfig ==
    /\ pc = "saml_config"
    /\ Logged("saml_config") /\ Consume
    /\ IF RemoteFails THEN Raised("ensure_saml_group_mapping", "ProvisioningError")
       ELSE IF Mapped(saml_cfg, loc.group_email)
       THEN Returned("ensure_saml_group_mapping", loc)
       ELSE /\ pc' = "update_saml_config"
            /\ loc' = [loc EXCEPT !.groups_field = saml_cfg]
            /\ UNCHANGED steps
    /\ UNCHANGED <<groups, folders, dashboards, saml_cfg, runs, prev, start, failed, issued, ext>>

\* ensure_saml_group_mapping: sdk.update_saml_config(body=update_body).
UpdateSamlConfig ==
    /\ pc = "update_saml_config"
    /\ Logged("update_saml_config") /\ Consume
    /\ IF RemoteFails
       THEN Raised("ensure_saml_group_mapping", "ProvisioningError") /\ UNCHANGED saml_cfg
       ELSE /\ saml_cfg' = update_body(loc.groups_field,
                                       [name |-> loc.group_email, id |-> loc.group_id])
            /\ Returned("ensure_saml_group_mapping", loc)
    /\ UNCHANGED <<groups, folders, dashboards, runs, prev, start, failed, issued, ext>>

\* ensure_project_folder: sdk.search_folders(name=folder_name) and reuse.
SearchFolders ==
    /\ pc = "search_folders"
    /\ Logged("search_folders") /\ Consume
    /\ IF RemoteFails THEN Raised("ensure_project_folder", "ProvisioningError")
       ELSE LET existing == search_folders(FolderName(loc.project_id)) IN
            IF Found(existing)
            THEN IF MissingId(existing[1].id)
                 THEN Raised("ensure_project_folder", "ProvisioningError")
                 ELSE IF NotInt(existing[1].id)
                 THEN Raised("ensure_project_folder", "ValueError")
                 ELSE Returned("ensure_project_folder",
                               [loc EXCEPT !.folder_id = existing[1].id])
            ELSE pc' = "create_folder" /\ UNCHANGED <<loc, steps>>
    /\ UNCHANGED <<groups, folders, dashboards, saml_cfg, runs, prev, start, failed, issued, ext>>

\* ensure_project_folder: sdk.create_folder(body={"name": folder_name}).
CreateFolder ==
    /\ pc = "create_folder"
    /\ Logged("create_folder") /\ Consume
    /\ issued' = Append(issued, [m |-> "create_folder", name |-> FolderName(loc.project_id),
                                 ok |-> ~RemoteFails])
    /\ IF RemoteFails
       THEN Raised("ensure_project_folder", "ProvisioningError") /\ UNCHANGED folders
       ELSE LET created == create_folder([name |-> FolderName(loc.project_id)]) IN
            /\ folders' = Append(folders, created)
            /\ Returned("ensure_project_folder", [loc EXCEPT !.folder_id = created.id])
    /\ UNCHANGED <<groups, dashboards, saml_cfg, runs, prev, start, failed, ext>>

\* clone_dashboard_if_missing: sdk.dashboard(template_dashboard_id) and the
\* derived title.
Dashboard ==
    /\ pc = "dashboard"
    /\ Logged("dashboard") /\ Consume
    /\ IF RemoteFails THEN Raised("clone_dashboard_if_missing", "ProvisioningError")
       ELSE /\ pc' = "search_dashboards"
            /\ loc' = [loc EXCEPT !.desired_title =
                          DesiredTitle(TemplateTitle(loc.template_dashboard_ids[loc.idx]),
                                       loc.project_id)]
            /\ UNCHANGED steps
    /\ UNCHANGED <<groups, folders, dashboards, saml_cfg, runs, prev, start, failed, issued, ext>>

\* provision: `if cloned: cloned_ids.append(cloned)` and the loop's advance.
Collected_prepend(l, cloned) ==
    [l EXCEPT !.cloned_ids = IF cloned # 0 THEN <<cloned>> \o @ ELSE @,
              !.idx = @ + 1]

Collected(l, cloned) ==
    [l EXCEPT !.cloned_ids = IF cloned # 0 THEN Append(@, cloned) ELSE @,
              !.idx = @ + 1]

\* clone_dashboard_if_missing: sdk.search_dashboards(title=desired_title); a
\* failing search is taken for an empty result.
SearchDashboards ==
    /\ pc = "search_dashboards"
    /\ Logged("search_dashboards") /\ Consume
    /\ LET existing == IF RemoteFails THEN <<>> ELSE search_dashboards(loc.desired_title) IN
       IF Found(existing)
       THEN IF MissingId(existing[1].id)
            THEN Raised("clone_dashboard_if_missing", "ProvisioningError")
            ELSE IF NotInt(existing[1].id)
            THEN Raised("clone_dashboard_if_missing", "ValueError")
            ELSE Returned("clone_dashboard_if_missing", Collected(loc, existing[1].id))
       ELSE pc' = "dashboard_copy" /\ UNCHANGED <<loc, steps>>
    /\ UNCHANGED <<groups, folders, dashboards, saml_cfg, runs, prev, start, failed, issued, ext>>

\* clone_dashboard_if_missing: sdk.dashboard_copy(template_dashboard_id, body).
DashboardCopy ==
    /\ pc = "dashboard_copy"
    /\ Logged("dashboard_copy") /\ Consume
    /\ IF RemoteFails
       THEN Raised("clone_dashboard_if_missing", "ProvisioningError") /\ UNCHANGED dashboards
       ELSE LET cloned == dashboard_copy([dashboard_id |-> loc.template_dashboard_ids[loc.idx],
                                          name |-> loc.desired_title,
                                          folder_id |-> loc.folder_id]) IN
            /\ dashboards' = Append(dashboards, cloned)
            /\ Returned("clone_dashboard_if_missing", Collected(loc, cloned.id))
    /\ UNCHANGED <<groups, folders, saml_cfg, runs, prev, start, failed, issued, ext>>

\* The platform becomes unavailable for the next k remote calls.
RemoteOutage(k) ==
    /\ ~Ended
    /\ downFor = 0
    /\ downFor' = k
    /\ UNCHANGED <<groups, folders, dashboards, saml_cfg, pc, loc, calls, steps,
                   runs, prev, start, failed, issued, ext>>

Next ==
    \/ \E p \in ProjectIds, g \in GroupEmails, t \in TemplateLists : Provision(p, g, t)
    \/ SearchGroups
    \/ CreateGroup
    \/ SamlConfig
    \/ UpdateSamlConfig
    \/ SearchFolders
    \/ CreateFolder
    \/ Dashboard
    \/ SearchDashboards
    \/ DashboardCopy
    \/ \E k \in 1..MaxOutage : RemoteOutage(k)

Spec == Init /\ [][Next]_vars

\* ------------------------------- add_group_to_saml, several at a time
raceFrame == <<folders, dashboards, pc, loc, calls, steps, runs, prev, start, failed,
               issued, scheduled_plans, plans_created, dpc, dloc, dcalls, decoms, direct, rest>>

\* The invocation ends: `return ProvisionResult(status=...)`.
Done(p, l, status) == w' = [w EXCEPT ![p] = [l EXCEPT !.pc = "done", !.status = status]]

\* add_group_to_saml(event): entry, up to the first remote call.
AddGroupToSaml(p, group_email) ==
    /\ w[p].pc = "idle"
    /\ w' = [w EXCEPT ![p] = [IdleWorker EXCEPT !.pc = "search_groups",
                                                !.group_email = group_email]]
    /\ UNCHANGED <<groups, saml_cfg, downFor, raceFrame>>

\* ensure_group: sdk.search_groups(name=group_email) and reuse.
WSearchGroups(p) ==
    /\ w[p].pc = "search_groups"
    /\ Consume
    /\ IF RemoteFails THEN Done(p, w[p], "error")
       ELSE LET existing == search_groups(w[p].group_email)
                l == [w[p] EXCEPT !.existing = existing]
            IN IF Found(existing)
               THEN IF MissingId(existing[1].id)
                    THEN Done(p, l, "error")
                    ELSE w' = [w EXCEPT ![p] = [l EXCEPT !.pc = "saml_config",
                                                         !.gid = existing[1].id]]
               ELSE w' = [w EXCEPT ![p] = [l EXCEPT !.pc = "create_group"]]
    /\ UNCHANGED <<groups, saml_cfg, raceFrame>>

\* ensure_group: sdk.create_group(body={"name": group_email}).
WCreateGroup(p) ==
    /\ w[p].pc = "create_group"
    /\ Consume
    /\ IF RemoteFails THEN Done(p, w[p], "error") /\ UNCHANGED groups
       ELSE LET created == create_group([name |-> w[p].group_email]) IN
            /\ groups' = Append(groups, created)
            /\ IF MissingId(created.id)
               THEN Done(p, [w[p] EXCEPT !.created = TRUE], "error")
               ELSE w' = [w EXCEPT ![p] = [@ EXCEPT !.pc = "saml_config",
                                                    !.created = TRUE,
                                                    !.gid = created.id]]
    /\ UNCHANGED <<saml_cfg, raceFrame>>

\* ensure_saml_group_mapping: sdk.saml_config() and the already-mapped return.
WSamlConfig(p) ==
    /\ w[p].pc = "saml_config"
    /\ Consume
    /\ IF RemoteFails THEN Done(p, w[p], "error")
       ELSE IF Mapped(saml_cfg, w[p].group_email)
       THEN Done(p, [w[p] EXCEPT !.groups_field = saml_cfg], "ok")
       ELSE w' = [w EXCEPT ![p] = [@ EXCEPT !.pc = "update_saml_config",
                                            !.groups_field = saml_cfg]]
    /\ UNCHANGED <<groups, saml_cfg, raceFrame>>

\* ensure_saml_group_mapping: sdk.update_saml_config(body=update_body).
WUpdateSamlConfig(p) ==
    /\ w[p].pc = "update_saml_config"
    /\ Consume
    /\ IF RemoteFails THEN Done(p, w[p], "error") /\ UNCHANGED saml_cfg
       ELSE /\ saml_cfg' = update_body(w[p].groups_field,
                                       [name |-> w[p].group_email, id |-> w[p].gid])
            /\ Done(p, [w[p] EXCEPT !.updated = TRUE], "ok")
    /\ UNCHANGED <<groups, raceFrame>>

NextRace ==
    \/ \E p \in Workers, g \in GroupEmails : AddGroupToSaml(p, g)
    \/ \E p \in Workers : WSearchGroups(p)
    \/ \E p \in Workers : WCreateGroup(p)
    \/ \E p \in Workers : WSamlConfig(p)
    \/ \E p \in Workers : WUpdateSamlConfig(p)

SpecRace == Init /\ [][NextRace]_vars

\* ------------------------------------------------ the request handlers
\* An entity whose id is not the text of an integer.
WithOddId(entity) == [entity EXCEPT !.id = -1]

\* ensure_group: sdk.create_group answers with a group whose id int() cannot
\* convert.
CreateGroupOddId ==
    /\ pc = "create_group"
    /\ ~RemoteFails
    /\ Logged("create_group") /\ Consume
    /\ issued' = Append(issued, [m |-> "create_group", name |-> loc.group_email,
                                 ok |-> TRUE])
    /\ LET created == WithOddId(create_group([name |-> loc.group_email])) IN
       /\ groups' = Append(groups, created)
       /\ IF MissingId(created.id) THEN Raised("ensure_group", "ProvisioningError")
          ELSE IF NotInt(created.id) THEN Raised("ensure_group", "ValueError")
          ELSE Returned("ensure_group", [loc EXCEPT !.group_id = created.id])
    /\ UNCHANGED <<folders, dashboards, saml_cfg, runs, prev, start, failed, ext>>

\* ensure_project_folder: sdk.create_folder answers with a folder whose id
\* int() cannot convert.
CreateFolderOddId ==
    /\ pc = "create_folder"
    /\ ~RemoteFails
    /\ Logged("create_folder") /\ Consume
    /\ issued' = Append(issued, [m |-> "create_folder", name |-> FolderName(loc.project_id),
                                 ok |-> TRUE])
    /\ LET created == WithOddId(create_folder([name |-> FolderName(loc.project_id)])) IN
       /\ folders' = Append(folders, created)
       /\ IF MissingId(created.id) THEN Raised("ensure_project_folder", "ProvisioningError")
          ELSE IF NotInt(created.id) THEN Raised("ensure_project_folder", "ValueError")
          ELSE Returned("ensure_project_folder", [loc EXCEPT !.folder_id = created.id])
    /\ UNCHANGED <<groups, dashboards, saml_cfg, runs, prev, start, failed, ext>>

handlerFrame == <<groups, folders, dashboards, saml_cfg, downFor, pc, loc, calls, steps,
                  runs, prev, start, failed, issued, scheduled_plans, plans_created, dpc,
                  dloc, dcalls, decoms, w, direct, group_users, connections, member, more>>

HandlerEnded == handler.pc \in {"idle", "done"}

\* The handler returns a response mapping.
Respond(l, response) ==
    handler' = [l EXCEPT !.pc = "done", !.out = "returned", !.response = response]

\* An exception leaves the handler.
Escape(l, exc) == handler' = [l EXCEPT !.pc = "done", !.out = "escaped", !.exc = exc]

\* handle_event: the status an exception of provision is answered with.
handle_event_status_error(e) == "error"

handle_event_status(e) ==
    CASE e = "ValidationError" -> "validation_error"
      [] e = "ProvisioningError" -> "provisioning_error"
      [] OTHER -> "unknown_error"

\* handler.handle_event(event): decoding, validation and the client check, up
\* to the call of provision.
HandleEvent(event, available) ==
    /\ HandlerEnded /\ Ended
    /\ LET l == [IdleHandler EXCEPT !.entry = "handle_event", !.event = event,
                                    !.available = available, !.runs = runs,
                                    !.settings = handler.settings]
           payload_dict == _decode_pubsub(event)
           projectId == Get(payload_dict.fields, "projectId")
           groupEmail == Get(payload_dict.fields, "groupEmail")
       IN IF payload_dict.raises # "none" THEN Escape(l, payload_dict.raises)
          ELSE IF Invalidates(payload_dict)
          THEN IF ~payload_dict.mapping THEN Escape(l, "AttributeError")
               ELSE IF Malformed(projectId, groupEmail)
               THEN Escape(l, "pydantic.ValidationError")
               ELSE Respond(l, Failure("validation_error", projectId.v, groupEmail.v,
                                       "pydantic.ValidationError"))
          ELSE LET payload == ProvisionPayload(payload_dict.fields, handler.settings) IN
               IF ~available
               THEN Respond([l EXCEPT !.payload = payload],
                            Failure("sdk_unavailable", payload.projectId,
                                    payload.groupEmail, NoError))
               ELSE handler' = [l EXCEPT !.pc = "provision", !.payload = payload]
    /\ UNCHANGED handlerFrame

\* The handler calls provisioner.provision(...).
CallProvision ==
    /\ handler.pc = "provision"
    /\ runs = handler.runs
    /\ Provision(handler.payload.projectId, handler.payload.groupEmail,
                 handler.payload.templateDashboardIds)

\* handle_event: provision has returned or raised.
HandleEventResult ==
    /\ handler.pc = "provision" /\ handler.entry = "handle_event"
    /\ runs > handler.runs /\ Ended
    /\ IF pc = "returned"
       THEN Respond(handler,
                    ProvisionResult("ok", loc.result.projectId, loc.result.groupEmail,
                                    loc.result.groupId, loc.result.folderId,
                                    loc.result.dashboardIds, loc.result.correlationId,
                                    NoError))
       ELSE Respond(handler, Failure(handle_event_status(loc.err), handler.payload.projectId,
                                     handler.payload.groupEmail, loc.err))
    /\ UNCHANGED handlerFrame

\* functions/main.provision_looker_project(event): the client check and
\* validation, up to the call of provision.
ProvisionLookerProject(event, available) ==
    /\ HandlerEnded /\ Ended
    /\ LET l == [IdleHandler EXCEPT !.entry = "provision_looker_project", !.event = event,
                                    !.available = available, !.runs = runs,
                                    !.settings = handler.settings]
           fields == IF event.data = "none" THEN event.fields ELSE NoFields
           projectId == Get(fields, "projectId")
           groupEmail == Get(fields, "groupEmail")
       IN IF ~available THEN Respond(l, [status |-> "sdk_unavailable"])
          ELSE IF Invalidates([mapping |-> TRUE, fields |-> fields])
          THEN IF Malformed(projectId, groupEmail)
               THEN Escape(l, "pydantic.ValidationError")
               ELSE Respond(l, Failure("validation_error", projectId.v, groupEmail.v,
                                       "pydantic.ValidationError"))
          ELSE handler' = [l EXCEPT !.pc = "provision",
                                    !.payload = ProvisionPayload(fields, handler.settings)]
    /\ UNCHANGED handlerFrame

\* provision_looker_project: provision has returned or raised.
ProvisionLookerProjectResult ==
    /\ handler.pc = "provision" /\ handler.entry = "provision_looker_project"
    /\ runs > handler.runs /\ Ended
    /\ IF pc = "returned"
       THEN Respond(handler,
                    ProvisionResult("ok", loc.result.projectId, loc.result.groupEmail,
                                    loc.result.groupId, loc.result.folderId,
                                    loc.result.dashboardIds, loc.result.correlationId,
                                    NoError))
       ELSE IF loc.err \in {"ProvisioningError", "ValidationError"}
       THEN Respond(handler, Failure("error", handler.payload.projectId,
                                     handler.payload.groupEmail, loc.err))
       ELSE Escape(handler, loc.err)
    /\ UNCHANGED handlerFrame

NextHandler ==
    \/ \E event \in Events, available \in BOOLEAN : HandleEvent(event, available)
    \/ \E event \in Events, available \in BOOLEAN : ProvisionLookerProject(event, available)
    \/ CallProvision
    \/ SearchGroups
    \/ CreateGroup
    \/ CreateGroupOddId
    \/ SamlConfig
    \/ UpdateSamlConfig
    \/ SearchFolders
    \/ CreateFolder
    \/ CreateFolderOddId
    \/ Dashboard
    \/ SearchDashboards
    \/ DashboardCopy
    \/ RemoteOutage(1)
    \/ HandleEventResult
    \/ ProvisionLookerProjectResult

SpecHandler == Init /\ [][NextHandler]_vars

\* --------------------------------------------- the configured defaults
\* Well-formed requests that give no templates, an empty list, or templates.
TemplateEvents ==
    {[data |-> d, fields |-> [projectId |-> Str("demo-project"),
                              groupEmail |-> Str("analysts@company.com"),
                              templateDashboardIds |-> t]] :
        d \in {"none", "mapping"}, t \in {Missing, List(<<>>), List(<<1>>)}}

\* settings = Settings(): the module reads the environment when it is
\* imported, before any request is handled.
LoadSettings(defaults) ==
    /\ handler.pc = "idle"
    /\ handler.settings # defaults
    /\ handler' = [handler EXCEPT !.settings = defaults]
    /\ UNCHANGED handlerFrame

NextSettings ==
    \/ \E defaults \in {<<>>, <<2>>, <<2, 1>>} : LoadSettings(defaults)
    \/ \E event \in TemplateEvents, available \in BOOLEAN : HandleEvent(event, available)
    \/ \E event \in TemplateEvents, available \in BOOLEAN :
           ProvisionLookerProject(event, available)
    \/ CallProvision
    \/ SearchGroups
    \/ CreateGroup
    \/ SamlConfig
    \/ UpdateSamlConfig
    \/ SearchFolders
    \/ CreateFolder
    \/ Dashboard
    \/ SearchDashboards
    \/ DashboardCopy
    \/ HandleEventResult
    \/ ProvisionLookerProjectResult

SpecSettings == Init /\ [][NextSettings]_vars

\* ------------------------- cloud_functions.add_group_to_saml: the envelope
\* The events whose projectId, when given, is a string.
EnvelopeEvents == {event \in Events : event.fields.projectId.t # "int"}

\* cloud_functions.add_group_to_saml(event): decode_pubsub, the two .get and
\* the client check, up to the first remote call of ensure_group.
AddGroupToSamlEvent(p, event, available) ==
    /\ w[p].pc = "idle"
    /\ LET payload == decode_pubsub(event)
           group_email == Get(payload.fields, "groupEmail").v
           l == [IdleWorker EXCEPT !.event = event]
       IN IF ~payload.mapping THEN Done(p, l, "AttributeError")
          ELSE IF ~available
          THEN Done(p, [l EXCEPT !.group_email = group_email], "sdk_unavailable")
          ELSE w' = [w EXCEPT ![p] = [l EXCEPT !.pc = "search_groups",
                                               !.group_email = group_email]]
    /\ UNCHANGED <<groups, saml_cfg, downFor, raceFrame>>

\* One remote call fails.
EnvelopeFailure ==
    /\ downFor = 0
    /\ \E p \in Workers : w[p].pc \notin {"idle", "done"}
    /\ downFor' = 1
    /\ UNCHANGED <<groups, saml_cfg, w, raceFrame>>

NextEnvelope ==
    \/ \E p \in Workers, event \in EnvelopeEvents, available \in BOOLEAN :
           AddGroupToSamlEvent(p, event, available)
    \/ \E p \in Workers : WSearchGroups(p)
    \/ \E p \in Workers : WCreateGroup(p)
    \/ \E p \in Workers : WSamlConfig(p)
    \/ \E p \in Workers : WUpdateSamlConfig(p)
    \/ EnvelopeFailure

SpecEnvelope == Init /\ [][NextEnvelope]_vars

\* ------------------------------------ provision: templates of one title
\* Template lists of pairwise distinct ids; templates 1 and 3 have one title.
NextTitles ==
    \/ \E t \in {<<1, 2>>, <<1, 3>>, <<3, 1>>, <<3>>, <<2, 3, 1>>} :
           Provision("demo-project", "analysts@company.com", t)
    \/ SearchGroups
    \/ CreateGroup
    \/ SamlConfig
    \/ UpdateSamlConfig
    \/ SearchFolders
    \/ CreateFolder
    \/ Dashboard
    \/ SearchDashboards
    \/ DashboardCopy

SpecTitles == Init /\ [][NextTitles]_vars

\* ------------------------------- provision: the same request, run twice
\* provision is given the request of the run that has ended once more, with
\* the platform as that run found it.
ProvisionAgain ==
    /\ Ended /\ pc # "idle"
    /\ twin = NoTwin
    /\ twin' = [status |-> pc, request |-> Request(loc), calls |-> calls,
                remote |-> remote, result |-> loc.result, err |-> loc.err]
    /\ groups' = start[1]
    /\ folders' = start[2]
    /\ dashboards' = start[3]
    /\ saml_cfg' = start[4]
    /\ ProvisionEntry(loc.project_id, loc.group_email, loc.template_dashboard_ids, start)
    /\ UNCHANGED <<downFor, issued, scheduled_plans, plans_created, dpc, dloc, dcalls,
                   decoms, w, direct, group_users, connections, member, handler, users,
                   bulk>>

NextCorr ==
    \/ \E p \in ProjectIds, t \in {<<>>, <<1>>, <<2, 1>>} :
           twin = NoTwin /\ Provision(p, "analysts@company.com", t)
    \/ ProvisionAgain
    \/ SearchGroups
    \/ CreateGroup
    \/ SamlConfig
    \/ UpdateSamlConfig
    \/ SearchFolders
    \/ CreateFolder
    \/ Dashboard
    \/ SearchDashboards
    \/ DashboardCopy
    \/ RemoteOutage(1)

SpecCorr == Init /\ [][NextCorr]_vars

\* ------------------------------------------------------------ delete_group
\* delete_group(group_id): one sdk.delete_group call.
DeleteGroup(group_id) ==
    /\ Ended
    /\ Consume
    /\ direct' = [invocations |-> direct.invocations + 1,
                  calls |-> <<[m |-> "delete_group", ok |-> ~RemoteFails]>>]
    /\ IF RemoteFails THEN UNCHANGED <<groups, group_users>>
       ELSE /\ groups' = delete_group(group_id)
            /\ group_users' = [g \in GroupIds |->
                                  IF g = group_id THEN <<>> ELSE group_users[g]]
    /\ UNCHANGED <<folders, dashboards, saml_cfg, pc, loc, calls, steps, runs, prev, start,
                   failed, issued, scheduled_plans, plans_created, dpc, dloc, dcalls,
                   decoms, w, connections, member, handler, more>>

\* No add_group_to_saml invocation is in progress.
WEnded == \A p \in Workers : w[p].pc \in {"idle", "done"}

\* provision, add_group_to_saml and delete_group, one after the other.
NextDelete ==
    \/ \E g \in GroupEmails \ {""} : WEnded /\ Provision("demo-project", g, <<>>)
    \/ SearchGroups
    \/ CreateGroup
    \/ SamlConfig
    \/ UpdateSamlConfig
    \/ SearchFolders
    \/ CreateFolder
    \/ \E p \in Workers, g \in GroupEmails \ {""} : Ended /\ WEnded /\ AddGroupToSaml(p, g)
    \/ \E p \in Workers : WSearchGroups(p)
    \/ \E p \in Workers : WCreateGroup(p)
    \/ \E p \in Workers : WSamlConfig(p)
    \/ \E p \in Workers : WUpdateSamlConfig(p)
    \/ \E g \in Range(groups) : WEnded /\ DeleteGroup(g.id)

SpecDelete == Init /\ [][NextDelete]_vars

\* ------------------------------------------ add_user_to_group: the steps
\* `if user_id in existing_user_ids`
IsMember_never(existing_user_ids, user_id) == FALSE

IsMember(existing_user_ids, user_id) ==
    \E i \in 1..Len(existing_user_ids) : existing_user_ids[i] = user_id

MemberEnded == member.pc \in {"idle", "returned", "raised"}

MemberLogged(m) ==
    [member EXCEPT !.calls = Append(@, [m |-> m, ok |-> ~RemoteFails])]

memberFrame == <<groups, folders, dashboards, saml_cfg, pc, loc, calls, steps, runs, prev,
                 start, failed, issued, scheduled_plans, plans_created, dpc, dloc, dcalls,
                 decoms, w, connections, direct, handler, more>>

\* add_user_to_group(group_id, user_id): entry.
AddUserToGroup(group_id, user_id) ==
    /\ MemberEnded
    /\ member' = [IdleMember EXCEPT !.pc = "all_group_users", !.group_id = group_id,
                                    !.user_id = user_id, !.start = group_users]
    /\ UNCHANGED <<group_users, downFor, memberFrame>>

\* add_user_to_group: sdk.all_group_users(group_id=group_id) and the
\* already-a-member return.
AllGroupUsers ==
    /\ member.pc = "all_group_users"
    /\ Consume
    /\ LET l == MemberLogged("all_group_users") IN
       IF RemoteFails THEN member' = [l EXCEPT !.pc = "raised"]
       ELSE LET existing_user_ids == all_group_users(member.group_id) IN
            member' = [l EXCEPT !.existing_user_ids = existing_user_ids,
                                !.pc = IF IsMember(existing_user_ids, member.user_id)
                                       THEN "returned" ELSE "add_group_user"]
    /\ UNCHANGED <<group_users, memberFrame>>

\* add_user_to_group: sdk.add_group_user(group_id, {"user_id": user_id}).
AddGroupUser ==
    /\ member.pc = "add_group_user"
    /\ Consume
    /\ LET l == MemberLogged("add_group_user") IN
       IF RemoteFails
       THEN member' = [l EXCEPT !.pc = "raised"] /\ UNCHANGED group_users
       ELSE /\ group_users' = add_group_user(member.group_id, [user_id |-> member.user_id])
            /\ member' = [l EXCEPT !.pc = "returned", !.added = TRUE]
    /\ UNCHANGED memberFrame

\* The next remote call of the add_user_to_group invocation raises.
MemberFailure ==
    /\ ~MemberEnded
    /\ downFor = 0
    /\ downFor' = 1
    /\ UNCHANGED <<group_users, member, memberFrame>>

NextUsers ==
    \/ \E g \in GroupIds, x \in {1, 2} : AddUserToGroup(g, x)
    \/ AllGroupUsers
    \/ AddGroupUser
    \/ MemberFailure

SpecUsers == Init /\ [][NextUsers]_vars

\* ------------------------------------ bulk_provision_users, create_user
\* Number of bulk_provision_users invocations in one behaviour.
MaxBulks == 2

\* The user records of the invocations: role_ids is <<>> when not given.
BulkInputs ==
    LET User1 == [email |-> "user1@company.com", role_ids |-> <<>>]
        User2 == [email |-> "user2@company.com", role_ids |-> <<1, 2, 3>>]
    IN {<<User1>>, <<User2>>, <<User1, User2>>, <<User2, User1>>}

\* bulk_provision_users: `if group_id:`
Joins_never(group_id) == FALSE

Joins(group_id) == group_id # NoId

BulkEnded == bulk.pc \in {"idle", "returned", "raised"}

BulkLogged(m) == [bulk EXCEPT !.calls = Append(@, [m |-> m, ok |-> ~RemoteFails])]

bulkFrame == <<groups, folders, dashboards, saml_cfg, pc, loc, calls, steps, runs, prev,
               start, failed, issued, scheduled_plans, plans_created, dpc, dloc, dcalls,
               decoms, w, connections, direct, handler, twin>>

\* bulk_provision_users: the loop reaches record i, or returns after the last;
\* `held` is the user list of the platform at that moment.
BulkLoop(l, i, held) ==
    IF i > Len(l.users)
    THEN [l EXCEPT !.pc = "returned", !.i = i]
    ELSE [l EXCEPT !.pc = "create_user", !.i = i, !.before = held]

\* create_user has returned user_id: the id is collected and, for a group, the
\* user is added to it.
BulkCreated(l, user_id, held) ==
    LET c == [l EXCEPT !.user_id = user_id, !.user_ids = Append(@, user_id)] IN
    IF Joins(l.group_id) THEN [c EXCEPT !.pc = "add_user_to_group"]
    ELSE BulkLoop(c, l.i + 1, held)

\* create_user raises ProvisioningError, which bulk_provision_users passes on.
BulkRaised(l) == [l EXCEPT !.pc = "raised", !.err = "ProvisioningError", !.at = bulk.pc]

\* bulk_provision_users(users, group_id): entry.
BulkProvisionUsers(us, group_id) ==
    /\ BulkEnded /\ MemberEnded
    /\ bulk.n < MaxBulks
    /\ bulk' = BulkLoop([IdleBulk EXCEPT !.n = bulk.n + 1, !.users = us,
                                         !.group_id = group_id,
                                         !.start = <<users, group_users>>], 1, users)
    /\ UNCHANGED <<users, group_users, member, downFor, bulkFrame>>

\* create_user: sdk.create_user(body=body).
CreateUser ==
    /\ bulk.pc = "create_user"
    /\ Consume
    /\ LET l == BulkLogged("create_user") IN
       IF RemoteFails THEN bulk' = BulkRaised(l) /\ UNCHANGED users
       ELSE LET user == create_user([email |-> bulk.users[bulk.i].email]) IN
            /\ users' = Append(users, user)
            /\ IF bulk.users[bulk.i].role_ids # <<>>
               THEN bulk' = [l EXCEPT !.pc = "set_user_roles", !.user_id = user.id]
               ELSE bulk' = BulkCreated(l, user.id, Append(users, user))
    /\ UNCHANGED <<group_users, member, bulkFrame>>

\* create_user: sdk.create_user answers with a user that has no id.
CreateUserNoId ==
    /\ bulk.pc = "create_user"
    /\ ~RemoteFails
    /\ Consume
    /\ LET user == [create_user([email |-> bulk.users[bulk.i].email]) EXCEPT !.id = NoId] IN
       /\ users' = Append(users, user)
       /\ IF MissingId(user.id) THEN bulk' = BulkRaised(BulkLogged("create_user"))
          ELSE bulk' = BulkCreated(BulkLogged("create_user"), user.id, Append(users, user))
    /\ UNCHANGED <<group_users, member, bulkFrame>>

\* create_user: sdk.set_user_roles(user_id=user_id, body=role_ids).
SetUserRoles ==
    /\ bulk.pc = "set_user_roles"
    /\ Consume
    /\ LET l == BulkLogged("set_user_roles") IN
       IF RemoteFails THEN bulk' = BulkRaised(l) /\ UNCHANGED users
       ELSE LET held == set_user_roles(bulk.user_id, bulk.users[bulk.i].role_ids) IN
            /\ users' = held
            /\ bulk' = BulkCreated(l, bulk.user_id, held)
    /\ UNCHANGED <<group_users, member, bulkFrame>>

\* bulk_provision_users: self.add_user_to_group(group_id, user_id), entry.
BulkAddUserToGroup ==
    /\ bulk.pc = "add_user_to_group"
    /\ MemberEnded
    /\ member' = [IdleMember EXCEPT !.pc = "all_group_users", !.group_id = bulk.group_id,
                                    !.user_id = bulk.user_id, !.start = group_users]
    /\ bulk' = [bulk EXCEPT !.pc = "in_add_user_to_group"]
    /\ UNCHANGED <<users, group_users, downFor, bulkFrame>>

\* bulk_provision_users: add_user_to_group has returned or raised.
BulkAfterAdd ==
    /\ bulk.pc = "in_add_user_to_group"
    /\ MemberEnded
    /\ bulk' = IF member.pc = "raised" THEN BulkRaised(bulk)
               ELSE BulkLoop(bulk, bulk.i + 1, users)
    /\ UNCHANGED <<users, group_users, member, downFor, bulkFrame>>

\* The next remote call of the bulk_provision_users invocation raises.
BulkFailure ==
    /\ ~BulkEnded
    /\ downFor = 0
    /\ downFor' = 1
    /\ UNCHANGED <<users, group_users, member, bulk, bulkFrame>>

NextBulk ==
    \/ \E us \in BulkInputs, g \in {NoId, 1} : BulkProvisionUsers(us, g)
    \/ CreateUser
    \/ CreateUserNoId
    \/ SetUserRoles
    \/ BulkAddUserToGroup
    \/ AllGroupUsers
    \/ AddGroupUser
    \/ BulkAfterAdd
    \/ BulkFailure

SpecBulk == Init /\ [][NextBulk]_vars

\* ------------------------------------------- responses without an id
\* The entity a create call answers with when the answer carries no id.
WithoutId(entity) == [entity EXCEPT !.id = NoId]

\* ensure_group: sdk.create_group answers with a group that has no id.
CreateGroupNoId ==
    /\ pc = "create_group"
    /\ ~RemoteFails
    /\ Logged("create_group") /\ Consume
    /\ issued' = Append(issued, [m |-> "create_group", name |-> loc.group_email,
                                 ok |-> TRUE])
    /\ LET created == WithoutId(create_group([name |-> loc.group_email])) IN
       /\ groups' = Append(groups, created)
       /\ IF MissingId(created.id)
          THEN Raised("ensure_group", "ProvisioningError")
          ELSE Returned("ensure_group", [loc EXCEPT !.group_id = created.id])
    /\ UNCHANGED <<folders, dashboards, saml_cfg, runs, prev, start, failed, ext>>

\* ensure_project_folder: sdk.create_folder answers with a folder that has
\* no id.
CreateFolderNoId ==
    /\ pc = "create_folder"
    /\ ~RemoteFails
    /\ Logged("create_folder") /\ Consume
    /\ issued' = Append(issued, [m |-> "create_folder", name |-> FolderName(loc.project_id),
                                 ok |-> TRUE])
    /\ LET created == WithoutId(create_folder([name |-> FolderName(loc.project_id)])) IN
       /\ folders' = Append(folders, created)
       /\ IF MissingId(created.id)
          THEN Raised("ensure_project_folder", "ProvisioningError")
          ELSE Returned("ensure_project_folder", [loc EXCEPT !.folder_id = created.id])
    /\ UNCHANGED <<groups, dashboards, saml_cfg, runs, prev, start, failed, ext>>

\* clone_dashboard_if_missing: sdk.dashboard_copy answers with a dashboard
\* that has no id.
DashboardCopyNoId ==
    /\ pc = "dashboard_copy"
    /\ ~RemoteFails
    /\ Logged("dashboard_copy") /\ Consume
    /\ LET cloned == WithoutId(dashboard_copy(
                         [dashboard_id |-> loc.template_dashboard_ids[loc.idx],
                          name |-> loc.desired_title,
                          folder_id |-> loc.folder_id])) IN
       /\ dashboards' = Append(dashboards, cloned)
       /\ IF MissingId(cloned.id)
          THEN Raised("clone_dashboard_if_missing", "ProvisioningError")
          ELSE Returned("clone_dashboard_if_missing", Collected(loc, cloned.id))
    /\ UNCHANGED <<groups, folders, saml_cfg, runs, prev, start, failed, issued, ext>>

NextNoId ==
    \/ \E p \in ProjectIds, g \in GroupEmails, t \in TemplateLists : Provision(p, g, t)
    \/ SearchGroups
    \/ CreateGroup
    \/ CreateGroupNoId
    \/ SamlConfig
    \/ UpdateSamlConfig
    \/ SearchFolders
    \/ CreateFolder
    \/ CreateFolderNoId
    \/ Dashboard
    \/ SearchDashboards
    \/ DashboardCopy
    \/ DashboardCopyNoId
    \/ \E k \in 1..MaxOutage : RemoteOutage(k)

SpecNoId == Init /\ [][NextNoId]_vars

\* ------------------------------------ decommission_project: the steps
\* decommission_project: the order of its three blocks.
Phases_archiveFirst == <<"archive_folder", "delete_dashboards", "delete_schedules">>

Phases == <<"delete_dashboards", "delete_schedules", "archive_folder">>

\* The block is requested and has a remote call to make.
HasWork_unflagged(phase, dl) ==
    CASE phase = "delete_dashboards" -> NextWithId(dl.dashboards, 1) <= Len(dl.dashboards)
      [] phase = "delete_schedules" -> NextWithId(dl.dashboards, 1) <= Len(dl.dashboards)
      [] phase = "archive_folder" -> TRUE

HasWork(phase, dl) ==
    CASE phase = "delete_dashboards" ->
            dl.delete_dashboards /\ NextWithId(dl.dashboards, 1) <= Len(dl.dashboards)
      [] phase = "delete_schedules" ->
            dl.delete_schedules /\ NextWithId(dl.dashboards, 1) <= Len(dl.dashboards)
      [] phase = "archive_folder" -> dl.archive_folder

PhaseCall(phase) ==
    CASE phase = "delete_dashboards" -> "delete_dashboard"
      [] phase = "delete_schedules" -> "scheduled_plans_for_dashboard"
      [] phase = "archive_folder" -> "update_folder"

\* The first block from position k on that has work, Len + 1 when none has.
RECURSIVE NextPhase(_, _)
NextPhase(k, dl) ==
    IF k > Len(Phases) THEN k
    ELSE IF HasWork(Phases[k], dl) THEN k ELSE NextPhase(k + 1, dl)

\* Control reaches block k of decommission_project.
Enter(k, dl) ==
    LET n == NextPhase(k, dl) IN
    IF n > Len(Phases)
    THEN /\ dpc' = "returned"
         /\ dloc' = [dl EXCEPT !.phase = n]
    ELSE /\ dpc' = PhaseCall(Phases[n])
         /\ dloc' = [dl EXCEPT !.phase = n, !.i = NextWithId(dl.dashboards, 1)]

\* `except Exception as e: raise ProvisioningError(...)`
DRaised_swallow ==
    /\ dpc' = "returned"
    /\ dloc' = dloc

DRaised ==
    /\ dpc' = "raised"
    /\ dloc' = [dloc EXCEPT !.err = "ProvisioningError"]

DLogged(m, arg) == dcalls' = Append(dcalls, [m |-> m, arg |-> arg, ok |-> ~RemoteFails])

DEnded == dpc \in {"idle", "returned", "raised"}

\* What a decommission_project invocation leaves alone.
provisionVars == <<pc, loc, calls, steps, runs, prev, start, failed, issued, direct, rest>>

\* decommission_project(project_id, archive_folder, delete_dashboards,
\* delete_schedules): entry.
Decommission(project_id, archive_folder, delete_dashboards, delete_schedules) ==
    /\ Ended /\ DEnded
    /\ decoms < MaxDecoms
    /\ decoms' = decoms + 1
    /\ dpc' = "search_folders"
    /\ dloc' = [NoDecommission EXCEPT
                  !.project_id = project_id, !.archive_folder = archive_folder,
                  !.delete_dashboards = delete_dashboards,
                  !.delete_schedules = delete_schedules,
                  !.results = NoResults(project_id),
                  !.start = <<folders, dashboards, scheduled_plans>>]
    /\ dcalls' = <<>>
    /\ UNCHANGED <<groups, folders, dashboards, saml_cfg, downFor, provisionVars,
                   scheduled_plans, plans_created, w>>

\* decommission_project: sdk.search_folders(name=folder_name), the
\* folder-not-found return.
DSearchFolders ==
    /\ dpc = "search_folders"
    /\ DLogged("search_folders", FolderName(dloc.project_id)) /\ Consume
    /\ IF RemoteFails THEN DRaised
       ELSE LET found == search_folders(FolderName(dloc.project_id)) IN
            IF ~Found(found)
            THEN dpc' = "returned" /\ UNCHANGED dloc
            ELSE /\ dpc' = "search_dashboards"
                 /\ dloc' = [dloc EXCEPT !.folder_id = found[1].id]
    /\ UNCHANGED <<groups, folders, dashboards, saml_cfg, provisionVars,
                   scheduled_plans, plans_created, decoms, w>>

\* decommission_project: sdk.search_dashboards(folder_id=folder_id).
DSearchDashboards ==
    /\ dpc = "search_dashboards"
    /\ DLogged("search_dashboards", dloc.folder_id) /\ Consume
    /\ IF RemoteFails THEN DRaised
       ELSE Enter(1, [dloc EXCEPT !.dashboards = search_dashboards_in(dloc.folder_id)])
    /\ UNCHANGED <<groups, folders, dashboards, saml_cfg, provisionVars,
                   scheduled_plans, plans_created, decoms, w>>

\* decommission_project: sdk.delete_dashboard(dash_id) for the i-th dashboard
\* of the list.
DDeleteDashboard ==
    /\ dpc = "delete_dashboard"
    /\ DLogged("delete_dashboard", dloc.dashboards[dloc.i].id) /\ Consume
    /\ IF RemoteFails THEN DRaised /\ UNCHANGED dashboards
       ELSE /\ dashboards' = delete_dashboard(dloc.dashboards[dloc.i].id)
            /\ LET dl == [dloc EXCEPT !.results.deleted_dashboards = @ + 1,
                                      !.i = NextWithId(dloc.dashboards, dloc.i + 1)]
               IN IF dl.i <= Len(dl.dashboards)
                  THEN dpc' = "delete_dashboard" /\ dloc' = dl
                  ELSE Enter(dloc.phase + 1, dl)
    /\ UNCHANGED <<groups, folders, saml_cfg, provisionVars,
                   scheduled_plans, plans_created, decoms, w>>

\* The schedules of dashboard i are done: the next dashboard, or the next block.
AfterSchedules(dl) ==
    LET n == NextWithId(dl.dashboards, dl.i + 1) IN
    IF n <= Len(dl.dashboards)
    THEN dpc' = "scheduled_plans_for_dashboard" /\ dloc' = [dl EXCEPT !.i = n]
    ELSE Enter(dl.phase + 1, [dl EXCEPT !.i = n])

\* decommission_project: sdk.scheduled_plans_for_dashboard(dash_id) for the
\* i-th dashboard of the list.
DScheduledPlans ==
    /\ dpc = "scheduled_plans_for_dashboard"
    /\ DLogged("scheduled_plans_for_dashboard", dloc.dashboards[dloc.i].id) /\ Consume
    /\ IF RemoteFails THEN DRaised
       ELSE LET schedules == scheduled_plans_for_dashboard(dloc.dashboards[dloc.i].id)
                dl == [dloc EXCEPT !.schedules = schedules,
                                   !.j = NextWithId(schedules, 1)]
            IN IF dl.j <= Len(schedules)
               THEN dpc' = "delete_scheduled_plan" /\ dloc' = dl
               ELSE AfterSchedules(dl)
    /\ UNCHANGED <<groups, folders, dashboards, saml_cfg, provisionVars,
                   scheduled_plans, plans_created, decoms, w>>

\* decommission_project: sdk.delete_scheduled_plan(schedule_id) for the j-th
\* schedule of the i-th dashboard.
DDeleteScheduledPlan ==
    /\ dpc = "delete_scheduled_plan"
    /\ DLogged("delete_scheduled_plan", dloc.schedules[dloc.j].id) /\ Consume
    /\ IF RemoteFails THEN DRaised /\ UNCHANGED scheduled_plans
       ELSE /\ scheduled_plans' = delete_scheduled_plan(dloc.schedules[dloc.j].id)
            /\ LET dl == [dloc EXCEPT !.results.deleted_schedules = @ + 1,
                                      !.j = NextWithId(dloc.schedules, dloc.j + 1)]
               IN IF dl.j <= Len(dl.schedules)
                  THEN dpc' = "delete_scheduled_plan" /\ dloc' = dl
                  ELSE AfterSchedules(dl)
    /\ UNCHANGED <<groups, folders, dashboards, saml_cfg, provisionVars,
                   plans_created, decoms, w>>

\* decommission_project: sdk.update_folder(folder_id, {"name": archived_name}).
DUpdateFolder ==
    /\ dpc = "update_folder"
    /\ DLogged("update_folder", dloc.folder_id) /\ Consume
    /\ IF RemoteFails THEN DRaised /\ UNCHANGED folders
       ELSE /\ folders' = update_folder(dloc.folder_id,
                              [name |-> ArchivedName(FolderName(dloc.project_id))])
            /\ Enter(dloc.phase + 1, [dloc EXCEPT !.results.archived_folder = TRUE])
    /\ UNCHANGED <<groups, dashboards, saml_cfg, provisionVars,
                   scheduled_plans, plans_created, decoms, w>>

\* create_scheduled_plan(dashboard_id, ...): one sdk.create_scheduled_plan call.
CreateScheduledPlan(dashboard_id) ==
    /\ Ended /\ DEnded
    /\ plans_created < MaxPlans
    /\ Consume
    /\ direct' = [invocations |-> direct.invocations + 1,
                  calls |-> <<[m |-> "create_scheduled_plan", ok |-> ~RemoteFails]>>]
    /\ IF RemoteFails THEN UNCHANGED <<scheduled_plans, plans_created>>
       ELSE /\ scheduled_plans' = Append(scheduled_plans,
                                     create_scheduled_plan([dashboard_id |-> dashboard_id]))
            /\ plans_created' = plans_created + 1
    /\ UNCHANGED <<groups, folders, dashboards, saml_cfg, pc, loc, calls, steps, runs,
                   prev, start, failed, issued, rest, dpc, dloc, dcalls, decoms, w>>

\* The next remote call of the decommission_project invocation raises.
DecomFailure ==
    /\ ~DEnded
    /\ downFor = 0
    /\ downFor' = 1
    /\ UNCHANGED <<groups, folders, dashboards, saml_cfg, provisionVars, ext>>

\* Inputs of the provision runs that set a project up for decommissioning.
SetupLists == {<<1>>, <<1, 2>>}

NextDecom ==
    \/ \E t \in SetupLists :
          DEnded /\ Provision("demo-project", "analysts@company.com", t)
    \/ SearchGroups
    \/ CreateGroup
    \/ SamlConfig
    \/ UpdateSamlConfig
    \/ SearchFolders
    \/ CreateFolder
    \/ Dashboard
    \/ SearchDashboards
    \/ DashboardCopy
    \/ \E d \in Range(dashboards) : CreateScheduledPlan(d.id)
    \/ \E af, dd, ds \in BOOLEAN : Decommission("demo-project", af, dd, ds)
    \/ DSearchFolders
    \/ DSearchDashboards
    \/ DDeleteDashboard
    \/ DScheduledPlans
    \/ DDeleteScheduledPlan
    \/ DUpdateFolder
    \/ DecomFailure

SpecDecom == Init /\ [][NextDecom]_vars

\* ---------------------------------- create_connection, create_scheduled_plan
\* Number of create_connection and create_scheduled_plan invocations in one
\* behaviour.
MaxCreates == 4

ConnectionNames == {"bq-main", "bq-reporting"}
PlanDashboards == {100, 101}

\* create_connection(name, host, database, ...): one sdk.create_connection call.
CreateConnection(name) ==
    /\ Ended /\ DEnded
    /\ Consume
    /\ direct' = [invocations |-> direct.invocations + 1,
                  calls |-> <<[m |-> "create_connection", ok |-> ~RemoteFails]>>]
    /\ IF RemoteFails THEN UNCHANGED connections
       ELSE connections' = create_connection([name |-> name])
    /\ UNCHANGED <<groups, folders, dashboards, saml_cfg, pc, loc, calls, steps, runs,
                   prev, start, failed, issued, scheduled_plans, plans_created, dpc, dloc,
                   dcalls, decoms, w, group_users, member, handler, more>>

\* The remote call of the next invocation raises.
CreateFailure ==
    /\ downFor = 0
    /\ direct.invocations < MaxCreates
    /\ downFor' = 1
    /\ UNCHANGED <<groups, folders, dashboards, saml_cfg, provisionVars, scheduled_plans,
                   plans_created, dpc, dloc, dcalls, decoms, w>>

NextCreate ==
    \/ \E name \in ConnectionNames :
          direct.invocations < MaxCreates /\ CreateConnection(name)
    \/ \E d \in PlanDashboards :
          direct.invocations < MaxCreates /\ CreateScheduledPlan(d)
    \/ CreateFailure

SpecCreate == Init /\ [][NextCreate]_vars


\* ---------------------------------------------------------------- claims
WriteCalls == {"create_group", "update_saml_config", "create_folder", "dashboard_copy"}

Count(s, keep) == Len(Filter(s, keep))

\* The run in progress repeats the inputs of the previous run, which returned.
RepeatsSuccessfulRun ==
    /\ prev.status = "returned"
    /\ prev.request = Request(loc)

\* C1: two successive successful provision calls with identical inputs return
\* the same groupId, the same folderId and the same dashboardIds.
C1_IdempotentResults ==
    (pc = "returned" /\ RepeatsSuccessfulRun) =>
        /\ loc.result.groupId = prev.result.groupId
        /\ loc.result.folderId = prev.result.folderId
        /\ loc.result.dashboardIds = prev.result.dashboardIds

\* C2: a provision run that repeats the inputs of a successful run issues no
\* create_group, update_saml_config, create_folder or dashboard_copy call and
\* leaves the remote state as it found it.
C2_SecondRunWritesNothing ==
    RepeatsSuccessfulRun =>
        /\ \A i \in 1..Len(calls) : calls[i].m \notin WriteCalls
        /\ remote = start

\* C3: provision with an empty projectId or an empty groupEmail ends with
\* ValidationError before any operation runs, having issued no remote call
\* and changed nothing on the remote platform.
C3_ValidationGate ==
    (runs > 0 /\ (loc.project_id = "" \/ loc.group_email = "")) =>
        /\ pc = "raised"
        /\ loc.err = "ValidationError"
        /\ calls = <<>>
        /\ steps = <<>>
        /\ remote = start

C3_Witness ==
    /\ pc = "raised"
    /\ loc.err = "ValidationError"
    /\ loc.project_id # ""
    /\ loc.group_email = ""
    /\ groups # <<>>

\* The operation each remote call belongs to, as a position in the order of
\* the steps.
CallRank(m) ==
    CASE m \in {"search_groups", "create_group"} -> 1
      [] m \in {"saml_config", "update_saml_config"} -> 2
      [] m \in {"search_folders", "create_folder"} -> 3
      [] OTHER -> 4

\* The i-th operation of a run on inputs l, with the ids found on the
\* remote platform for the group and the folder.
ExpectedStep(l, i) ==
    CASE i = 1 -> [op |-> "ensure_group", args |-> <<l.group_email>>]
      [] i = 2 -> [op |-> "ensure_saml_group_mapping",
                   args |-> <<search_groups(l.group_email)[1].id, l.group_email>>]
      [] i = 3 -> [op |-> "ensure_project_folder", args |-> <<l.project_id>>]
      [] OTHER -> [op |-> "clone_dashboard_if_missing",
                   args |-> <<l.template_dashboard_ids[i - 3],
                              search_folders(FolderName(l.project_id))[1].id,
                              l.project_id>>]

\* C4: in every provision run the operations are invoked in the order
\* ensure_group, ensure_saml_group_mapping (with the id of the group
\* ensure_group produced), ensure_project_folder, clone_dashboard_if_missing
\* per template id in input order (with the id of the folder
\* ensure_project_folder produced); an operation starts only when the one
\* before it has returned, the remote calls follow the same order, and a run
\* that returns has skipped none.
C4_StepOrdering ==
    /\ Len(steps) <= 3 + Len(loc.template_dashboard_ids)
    /\ \A i \in 1..Len(steps) :
          /\ steps[i].op = ExpectedStep(loc, i).op
          /\ steps[i].args = ExpectedStep(loc, i).args
          /\ i < Len(steps) => steps[i].out = "returned"
    /\ \A i, j \in 1..Len(calls) : i < j => CallRank(calls[i].m) <= CallRank(calls[j].m)
    /\ calls # <<>> => CallRank(calls[Len(calls)].m) <= Len(steps)
    /\ pc = "returned" =>
          /\ Len(steps) = 3 + Len(loc.template_dashboard_ids)
          /\ steps[Len(steps)].out = "returned"

C4_Witness ==
    /\ pc = "returned"
    /\ loc.template_dashboard_ids = <<2, 1>>
    /\ Len(steps) = 5
    /\ loc.group_id = 2

\* C5: when an operation of a provision run raises, the run ends there with
\* ProvisioningError: the failed operation is the last one invoked, the
\* failed remote call is the last one issued, the operation was attempted
\* once and no result is returned.
C5_AbortOnStepFailure ==
    \A i \in 1..Len(steps) :
        steps[i].out = "raised" =>
            /\ i = Len(steps)
            /\ pc = "raised"
            /\ loc.err = "ProvisioningError"
            /\ loc.result = NoResult
            /\ loc.attempts = 1
            /\ ~calls[Len(calls)].ok
            /\ \A j \in 1..(Len(calls) - 1) :
                  ~calls[j].ok => calls[j].m = "search_dashboards"

C5_Witness ==
    /\ pc = "raised"
    /\ loc.err = "ProvisioningError"
    /\ Len(loc.template_dashboard_ids) = 2
    /\ loc.idx = 1
    /\ steps[Len(steps)].op = "clone_dashboard_if_missing"
    /\ calls[Len(calls)].m = "dashboard_copy"

\* C6: no step of provision removes anything: the groups, folders,
\* dashboards and SAML entries present before a step are all present, in
\* place, after it, also when the step is the one that fails.
C6_NoRollback ==
    [][/\ IsPrefix(groups, groups')
       /\ IsPrefix(folders, folders')
       /\ IsPrefix(dashboards, dashboards')
       /\ IsPrefix(saml_cfg, saml_cfg')]_vars

C6_Witness ==
    /\ pc = "raised"
    /\ loc.err = "ProvisioningError"
    /\ Len(groups) > Len(start[1])
    /\ Len(saml_cfg) > Len(start[4])
    /\ Len(saml_cfg) = 2
    /\ Len(folders) > Len(start[2])
    /\ Len(dashboards) > Len(start[3])

\* C7: a provision run that returns, on inputs for which an earlier run ended
\* with ProvisioningError, leaves exactly one group named groupEmail, one
\* SAML entry for groupEmail, one folder "Project: {projectId}" and one
\* cloned dashboard per template title.
C7_ResumeConverges ==
    (pc = "returned" /\ Request(loc) \in failed) =>
        /\ Count(groups, {g \in Range(groups) : g.name = loc.group_email}) = 1
        /\ Count(saml_cfg, {g \in Range(saml_cfg) : g.name = loc.group_email}) = 1
        /\ Count(folders, {f \in Range(folders) : f.name = FolderName(loc.project_id)}) = 1
        /\ \A i \in 1..Len(loc.template_dashboard_ids) :
              Count(dashboards,
                    {d \in Range(dashboards) :
                        d.title = DesiredTitle(TemplateTitle(loc.template_dashboard_ids[i]),
                                               loc.project_id)}) = 1

\* C8: an operation whose remote call fails on the first two attempts and
\* succeeds on the third returns: it never raises while the attempts made and
\* the failures the platform still has in store stay below three.
C8_RetryThenSucceed ==
    ~(pc = "raised" /\ loc.err = "ProvisioningError" /\ loc.attempts + downFor < 3)

\* C9: an operation that raises ProvisioningError has been attempted exactly
\* three times, and no operation is attempted more than three times.
C9_BoundedRetry ==
    /\ loc.attempts <= 3
    /\ (pc = "raised" /\ loc.err = "ProvisioningError") => loc.attempts = 3

\* C10: an error that is not ProvisioningError (the ValidationError of
\* provision) propagates after a single attempt and no remote call.
C10_ValidationErrorNotRetried ==
    (pc = "raised" /\ loc.err # "ProvisioningError") =>
        /\ loc.err = "ValidationError"
        /\ loc.attempts = 1
        /\ calls = <<>>

C10_Witness ==
    /\ pc = "raised"
    /\ loc.err = "ValidationError"
    /\ loc.attempts = 1
    /\ loc.project_id = ""
    /\ runs = 2

\* C11: for every derived title at most one cloned dashboard exists, whatever
\* the remote calls did, the title search failing included.
C11_CloneUniqueness ==
    \A i, j \in 1..Len(dashboards) :
        dashboards[i].title = dashboards[j].title => i = j

\* C12 as stated: over non-overlapping ensure_group and ensure_project_folder
\* invocations at most one create call is ever issued per group name and per
\* folder name.
C12_OneCreateCallPerName ==
    \A i, j \in 1..Len(issued) :
        (issued[i].m = issued[j].m /\ issued[i].name = issued[j].name) => i = j

\* C12, amended: over non-overlapping ensure_group and ensure_project_folder
\* invocations at most one create call succeeds per group name and per folder
\* name; a create call is issued again for a name only when every earlier one
\* for that name failed, and no two groups and no two folders share a name.
C12_OneSuccessfulCreatePerName ==
    /\ \A i, j \in 1..Len(issued) :
           (i < j /\ issued[i].m = issued[j].m /\ issued[i].name = issued[j].name)
               => ~issued[i].ok
    /\ \A i, j \in 1..Len(groups) : groups[i].name = groups[j].name => i = j
    /\ \A i, j \in 1..Len(folders) : folders[i].name = folders[j].name => i = j

C12_Witness ==
    /\ \E i, j \in 1..Len(issued) :
           /\ i < j
           /\ issued[i].m = "create_group" /\ issued[j].m = "create_group"
           /\ issued[i].name = issued[j].name
           /\ ~issued[i].ok /\ issued[j].ok
    /\ \E i \in 1..Len(issued) : issued[i].m = "create_folder" /\ issued[i].ok
    /\ runs = 2
    /\ pc = "returned"

\* C15: over non-overlapping ensure_saml_group_mapping calls, no
\* update_saml_config call is issued for a group name the configured list
\* holds already; a successful update leaves the previous list, unchanged and
\* in order, with the one entry {name, id} of the call appended at its end;
\* no other step changes the list.
C15_SamlAppendOnly ==
    [][LET updates == /\ Len(calls') > Len(calls)
                      /\ calls'[Len(calls')].m = "update_saml_config"
           answered == updates /\ calls'[Len(calls')].ok
       IN /\ updates => \A i \in 1..Len(saml_cfg) : saml_cfg[i].name # loc.group_email
          /\ answered => saml_cfg' = Append(saml_cfg, [name |-> loc.group_email,
                                                       id |-> loc.group_id])
          /\ ~answered => saml_cfg' = saml_cfg]_vars

C15_Witness ==
    /\ Len(saml_cfg) = 2
    /\ saml_cfg[1].name # saml_cfg[2].name
    /\ saml_cfg[2] = [name |-> loc.group_email, id |-> loc.group_id]
    /\ runs = 2
    /\ pc = "returned"
    /\ \E i \in 1..Len(calls) : calls[i].m = "update_saml_config" /\ calls[i].ok

\* The last remote call was a create or copy call that answered with an
\* entity without an id.
CreatedWithoutId ==
    /\ calls # <<>>
    /\ calls[Len(calls)].ok
    /\ \/ calls[Len(calls)].m = "create_group" /\ groups[Len(groups)].id = NoId
       \/ calls[Len(calls)].m = "create_folder" /\ folders[Len(folders)].id = NoId
       \/ calls[Len(calls)].m = "dashboard_copy" /\ dashboards[Len(dashboards)].id = NoId

\* C16: when create_group, create_folder or dashboard_copy answers with an
\* entity that has no id, the operation raises ProvisioningError and returns
\* no value; provision never returns a result with a missing groupId or
\* folderId, nor a missing dashboard id.
C16_CreateWithoutIdFails ==
    /\ CreatedWithoutId =>
           /\ pc = "raised"
           /\ loc.err = "ProvisioningError"
           /\ loc.result = NoResult
           /\ steps[Len(steps)].out = "raised"
    /\ pc = "returned" =>
           /\ loc.result.groupId # NoId
           /\ loc.result.folderId # NoId
           /\ \A i \in 1..Len(loc.result.dashboardIds) : loc.result.dashboardIds[i] # NoId

C16_Witness ==
    /\ CreatedWithoutId
    /\ calls[Len(calls)].m = "dashboard_copy"
    /\ pc = "raised"
    /\ loc.group_id # NoId
    /\ loc.folder_id # NoId

\* C17: every remote call that fails makes the operation that issued it raise
\* ProvisioningError; no failure of a remote call is passed over.
C17_UniformFailureWrapping ==
    \A i \in 1..Len(calls) :
        ~calls[i].ok =>
            /\ i = Len(calls)
            /\ pc = "raised"
            /\ loc.err = "ProvisioningError"

\* C18: a decommission_project whose folder search finds no folder named
\* "Project: {projectId}" returns archived_folder = false,
\* deleted_dashboards = 0 and deleted_schedules = 0 without raising, for every
\* combination of the three flags, having issued the folder search and no
\* other remote call and having changed nothing.
C18_DecommissionNoOp ==
    [][(/\ dpc = "search_folders"
        /\ \A i \in 1..Len(folders) : folders[i].name # FolderName(dloc.project_id))
       => /\ UNCHANGED <<groups, folders, dashboards, saml_cfg, scheduled_plans>>
          /\ (dcalls' # dcalls /\ dcalls'[Len(dcalls')].ok) =>
                 /\ dpc' = "returned"
                 /\ dloc'.err = "none"
                 /\ dloc'.results = [projectId |-> dloc.project_id,
                                     archived_folder |-> FALSE,
                                     deleted_dashboards |-> 0,
                                     deleted_schedules |-> 0]
                 /\ dcalls' = <<[m |-> "search_folders",
                                 arg |-> FolderName(dloc.project_id),
                                 ok |-> TRUE]>>]_vars

C18_Witness ==
    /\ dpc = "returned"
    /\ dloc.folder_id = NoId
    /\ dloc.archive_folder /\ dloc.delete_dashboards /\ dloc.delete_schedules
    /\ dcalls = <<[m |-> "search_folders", arg |-> FolderName(dloc.project_id),
                   ok |-> TRUE]>>
    /\ dloc.start = <<folders, dashboards, scheduled_plans>>
    /\ folders # <<>>
    /\ dashboards # <<>>
    /\ scheduled_plans # <<>>

\* The dashboards the folder of the decommission held when it started, and the
\* scheduled plans that were attached to them.
DashboardsAtStart ==
    Filter(dloc.start[2], {d \in Range(dloc.start[2]) : d.folder_id = dloc.folder_id})

SchedulesAtStart ==
    Filter(dloc.start[3], {q \in Range(dloc.start[3]) :
                              \E d \in Range(DashboardsAtStart) : q.dashboard_id = d.id})

\* What a decommission_project that found its folder has returned and left
\* behind.
DecommissionedAsRequested ==
    /\ dloc.results.projectId = dloc.project_id
    /\ IF dloc.delete_dashboards
       THEN /\ dloc.results.deleted_dashboards = Len(DashboardsAtStart)
            /\ \A d \in Range(dashboards) : d.folder_id # dloc.folder_id
       ELSE /\ dloc.results.deleted_dashboards = 0
            /\ dashboards = dloc.start[2]
    /\ IF dloc.delete_schedules
       THEN /\ dloc.results.deleted_schedules = Len(SchedulesAtStart)
            /\ \A q \in Range(scheduled_plans) :
                   \A d \in Range(DashboardsAtStart) : q.dashboard_id # d.id
       ELSE /\ dloc.results.deleted_schedules = 0
            /\ scheduled_plans = dloc.start[3]
    /\ IF dloc.archive_folder
       THEN /\ dloc.results.archived_folder
            /\ Len(folders) = Len(dloc.start[1])
            /\ \A k \in 1..Len(folders) :
                   folders[k] = IF dloc.start[1][k].id = dloc.folder_id
                                THEN [id |-> dloc.folder_id,
                                      name |-> <<"Archived:", "Project:", dloc.project_id>>]
                                ELSE dloc.start[1][k]
       ELSE /\ ~dloc.results.archived_folder
            /\ folders = dloc.start[1]

\* C19: a decommission_project that finds its folder and whose remote calls
\* all succeed returns deleted_dashboards = d, deleted_schedules = s and
\* archived_folder = true for the flags that are set, d and s being the
\* dashboards the folder held and the plans attached to them; afterwards none
\* of these exists and the folder is named "Archived: Project: {projectId}";
\* for a flag that is false the count stays 0 (or false) and the entities are
\* as they were.
C19_DecommissionFullCycle ==
    [][(~DEnded /\ dpc' = "returned" /\ dloc'.folder_id # NoId)
       => DecommissionedAsRequested']_vars

C19_Witness ==
    /\ dpc = "returned"
    /\ dloc.archive_folder /\ dloc.delete_dashboards /\ dloc.delete_schedules
    /\ dloc.results = [projectId |-> "demo-project", archived_folder |-> TRUE,
                       deleted_dashboards |-> 2, deleted_schedules |-> 2]
    /\ dashboards = <<>>
    /\ scheduled_plans = <<>>
    /\ folders = <<[id |-> 1, name |-> <<"Archived:", "Project:", "demo-project">>]>>

\* The block of decommission_project a remote call belongs to.
DRank(m) ==
    CASE m = "search_folders" -> 0
      [] m = "search_dashboards" -> 1
      [] m = "delete_dashboard" -> 2
      [] m \in {"scheduled_plans_for_dashboard", "delete_scheduled_plan"} -> 3
      [] m = "update_folder" -> 4

\* The dashboard ids the schedule lookups of the decommission were issued
\* for, in order.
Lookups ==
    LET l == Filter(dcalls, {c \in Range(dcalls) : c.m = "scheduled_plans_for_dashboard"})
    IN [k \in 1..Len(l) |-> l[k].arg]

\* C20: decommission_project lists the dashboards of the folder exactly once,
\* before any deletion; the schedule lookups go, in order, over every
\* dashboard of the list captured then, the dashboards deleted meanwhile
\* included; the calls come in the order delete dashboards, delete schedules,
\* archive folder.
C20_SchedulesUseCapturedList ==
    dpc # "idle" =>
        /\ Count(dcalls, {c \in Range(dcalls) : c.m = "search_dashboards"}) <= 1
        /\ \A i \in 1..Len(dcalls) :
               DRank(dcalls[i].m) >= 2 =>
                   /\ dcalls[i - 1].ok
                   /\ \E h \in 1..(i - 1) : dcalls[h].m = "search_dashboards"
        /\ \A i, j \in 1..Len(dcalls) :
               i < j => DRank(dcalls[i].m) <= DRank(dcalls[j].m)
        /\ dloc.folder_id # NoId /\ Len(dcalls) >= 2 /\ dcalls[2].ok =>
               dloc.dashboards = DashboardsAtStart
        /\ IsPrefix(Lookups, [k \in 1..Len(dloc.dashboards) |-> dloc.dashboards[k].id])
        /\ (dpc = "returned" /\ dloc.folder_id # NoId /\ dloc.delete_schedules) =>
               Len(Lookups) = Len(dloc.dashboards)

C20_Witness ==
    /\ dpc = "returned"
    /\ dloc.delete_dashboards /\ dloc.delete_schedules /\ dloc.archive_folder
    /\ Len(dloc.dashboards) = 2
    /\ dloc.results.deleted_dashboards = 2
    /\ dloc.results.deleted_schedules >= 1
    /\ Lookups = <<dloc.dashboards[1].id, dloc.dashboards[2].id>>

\* C13: concurrent ensure_group invocations hold no lock: every invocation
\* whose own search found no group of its name issues create_group, whatever
\* the others have created meanwhile, so each name has as many groups as it
\* has invocations that created one; two invocations for one email can both
\* find nothing and leave two groups of that name.
C13_DuplicateGroupRace ==
    /\ \A p \in Workers :
           /\ w[p].created => w[p].existing = <<>>
           /\ (w[p].pc \in {"saml_config", "update_saml_config"} \/ w[p].status = "ok") =>
                  (w[p].created <=> w[p].existing = <<>>)
    /\ \A g \in GroupEmails :
           Count(groups, {x \in Range(groups) : x.name = g})
               = Cardinality({p \in Workers : w[p].created /\ w[p].group_email = g})

C13_Witness ==
    /\ \A p \in Workers : w[p].status = "ok" /\ w[p].created
    /\ w[1].group_email = w[2].group_email
    /\ w[1].gid # w[2].gid
    /\ \E i, j \in 1..Len(groups) : i # j /\ groups[i].name = groups[j].name

\* C14: an ensure_saml_group_mapping invocation that updates writes back the
\* list it read with its own entry appended, whatever was written since it
\* read, and returns success; two concurrent invocations for different
\* emails can so both return success and leave only one of the two entries.
C14_SamlLostUpdate ==
    [][\A p \in Workers :
           (w[p].pc = "update_saml_config" /\ w'[p].pc = "done") =>
               /\ w'[p].status = "ok"
               /\ saml_cfg' = Append(w[p].groups_field,
                                     [name |-> w[p].group_email, id |-> w[p].gid])]_vars

C14_Witness ==
    /\ \A p \in Workers : w[p].status = "ok" /\ w[p].updated
    /\ w[1].group_email # w[2].group_email
    /\ w[1].groups_field = w[2].groups_field
    /\ Len(saml_cfg) = 1

\* C21: a remote call of decommission_project that fails makes the invocation
\* raise ProvisioningError at once; the invocation issues no further remote
\* call, so the folder is not archived; the failing call changes nothing and
\* the dashboards and plans deleted before it stay deleted.
C21_DecommissionFailForward ==
    [][/\ (dcalls' # dcalls /\ dcalls' # <<>> /\ ~dcalls'[Len(dcalls')].ok) =>
              /\ dpc' = "raised"
              /\ dloc'.err = "ProvisioningError"
              /\ UNCHANGED <<groups, folders, dashboards, saml_cfg, scheduled_plans>>
              /\ ~dloc'.results.archived_folder
              /\ \A k \in 1..Len(folders') :
                     folders'[k].id = dloc.folder_id =>
                         folders'[k].name = <<"Project:", dloc.project_id>>
              /\ \A i \in 1..Len(dcalls) :
                     /\ dcalls[i].ok
                     /\ dcalls[i].m = "delete_dashboard" =>
                            \A d \in Range(dashboards') : d.id # dcalls[i].arg
                     /\ dcalls[i].m = "delete_scheduled_plan" =>
                            \A q \in Range(scheduled_plans') : q.id # dcalls[i].arg
       /\ dpc = "raised" => (dcalls' = dcalls \/ dcalls' = <<>>)]_vars

C21_Witness ==
    /\ dpc = "raised"
    /\ dloc.err = "ProvisioningError"
    /\ dcalls[Len(dcalls)] = [m |-> "update_folder", arg |-> dloc.folder_id, ok |-> FALSE]
    /\ dloc.results.deleted_dashboards = 2
    /\ dloc.results.deleted_schedules >= 1
    /\ dashboards = <<>>
    /\ folders = <<[id |-> 1, name |-> <<"Project:", "demo-project">>]>>

\* C30: the dashboardIds of a provision that returns hold, in the order of
\* the template ids given, the id clone_dashboard_if_missing returned for each
\* template: one id per template, the k-th being the id of a dashboard titled
\* for the k-th template.
C30_DashboardIdsInOrder ==
    pc = "returned" =>
        /\ Len(loc.result.dashboardIds) = Len(loc.template_dashboard_ids)
        /\ \A k \in 1..Len(loc.template_dashboard_ids) :
               \E d \in Range(dashboards) :
                   /\ d.id = loc.result.dashboardIds[k]
                   /\ d.title = <<"Template", loc.template_dashboard_ids[k],
                                  "(project:", loc.project_id, ")">>

C30_Witness ==
    /\ pc = "returned"
    /\ runs = 2
    /\ loc.template_dashboard_ids = <<2, 1>>
    /\ loc.result.dashboardIds = <<101, 100>>

\* C22: add_user_to_group returns true and adds the membership when the user
\* is not a member of the group, and returns false without issuing
\* add_group_user when the user is a member; after any sequence of
\* non-overlapping calls no membership list holds a user id twice.
C22_MembershipIdempotent ==
    /\ \A g \in GroupIds :
           \A i, j \in 1..Len(group_users[g]) :
               group_users[g][i] = group_users[g][j] => i = j
    /\ member.pc = "returned" =>
           LET before == member.start[member.group_id] IN
           IF \E i \in 1..Len(before) : before[i] = member.user_id
           THEN /\ ~member.added
                /\ group_users = member.start
                /\ \A i \in 1..Len(member.calls) : member.calls[i].m # "add_group_user"
           ELSE /\ member.added
                /\ group_users = [member.start EXCEPT
                                     ![member.group_id] = Append(@, member.user_id)]

C22_Witness ==
    /\ member.pc = "returned"
    /\ ~member.added
    /\ Len(group_users[member.group_id]) = 2
    /\ group_users[member.group_id][1] = member.user_id
    /\ member.calls = <<[m |-> "all_group_users", ok |-> TRUE]>>

\* C29: every create_connection and every create_scheduled_plan invocation
\* issues exactly one remote call, the create call, with no search before it;
\* when the call succeeds exactly one entity is appended to what the platform
\* held, whatever names and dashboards it held already, so n invocations for
\* one name or one dashboard leave n entities.
C29_NoDeduplication ==
    [][direct' # direct =>
           /\ direct'.invocations = direct.invocations + 1
           /\ Len(direct'.calls) = 1
           /\ LET call == direct'.calls[1] IN
              /\ call.m \in {"create_connection", "create_scheduled_plan"}
              /\ IF call.m = "create_connection" /\ call.ok
                 THEN /\ Len(connections') = Len(connections) + 1
                      /\ IsPrefix(connections, connections')
                 ELSE connections' = connections
              /\ IF call.m = "create_scheduled_plan" /\ call.ok
                 THEN /\ Len(scheduled_plans') = Len(scheduled_plans) + 1
                      /\ IsPrefix(scheduled_plans, scheduled_plans')
                 ELSE scheduled_plans' = scheduled_plans]_vars

C29_Witness ==
    /\ direct.invocations = 4
    /\ Len(connections) = 2
    /\ connections[1].name = connections[2].name
    /\ Len(scheduled_plans) = 2
    /\ scheduled_plans[1].dashboard_id = scheduled_plans[2].dashboard_id
    /\ scheduled_plans[1].id # scheduled_plans[2].id

\* The invocation of the handler has ended after calling provision.
ProvisionCalled == handler.pc = "done" /\ handler.available /\ handler.payload # <<>>

\* C23: an invocation that called provision returns status ok when provision
\* returned, validation_error when it raised ValidationError,
\* provisioning_error when it raised ProvisioningError and unknown_error when
\* it raised anything else.
C23_HandlerStatusMapping ==
    ProvisionCalled =>
        /\ handler.out = "returned"
        /\ handler.response.status =
               IF pc = "returned" THEN "ok"
               ELSE CASE loc.err = "ValidationError" -> "validation_error"
                      [] loc.err = "ProvisioningError" -> "provisioning_error"
                      [] OTHER -> "unknown_error"

\* C24: every invocation of a handler that has ended has returned a mapping
\* with a status field; no exception has left the handler.
C24_AlwaysResponds ==
    handler.pc = "done" =>
        /\ handler.out = "returned"
        /\ "status" \in DOMAIN handler.response

\* C25: every response holds projectId and groupEmail, and its error is set
\* exactly when its status is neither ok nor sdk_unavailable.
C25_ResponseShape ==
    (handler.pc = "done" /\ handler.out = "returned") =>
        /\ {"projectId", "groupEmail", "error"} \subseteq DOMAIN handler.response
        /\ handler.response.error # NoError
               <=> handler.response.status \notin {"ok", "sdk_unavailable"}

\* The request of the handle_event invocation is decoded and fails the
\* validation of ProvisionPayload.
FailsValidation ==
    /\ handler.entry = "handle_event"
    /\ handler.event.data # "undecodable"
    /\ Invalidates(_decode_pubsub(handler.event))

\* C26: a request of handle_event that fails validation is answered with
\* validation_error and its raw projectId and groupEmail, with or without a
\* client, and provision is not called for it; provision is called for valid
\* requests only.
C26_ValidationFirst ==
    /\ (handler.pc = "done" /\ FailsValidation) =>
           /\ handler.out = "returned"
           /\ handler.response.status = "validation_error"
           /\ handler.response.projectId = Get(handler.event.fields, "projectId").v
           /\ handler.response.groupEmail = Get(handler.event.fields, "groupEmail").v
           /\ runs = handler.runs
    /\ handler.pc = "provision" => ~FailsValidation

\* C27: in every response of handle_event, groupId, folderId and correlationId
\* are set exactly when the status is ok, error is set exactly when the status
\* is validation_error, provisioning_error or unknown_error, and a response
\* with status sdk_unavailable has neither and provision was not called for it.
C27_ResultContentPerStatus ==
    (handler.pc = "done" /\ handler.entry = "handle_event" /\ handler.out = "returned") =>
        LET r == handler.response IN
        /\ r.status \in {"ok", "sdk_unavailable", "validation_error", "provisioning_error",
                         "unknown_error"}
        /\ IF r.status = "ok"
           THEN r.groupId # NoId /\ r.folderId # NoId /\ r.correlationId # NoId
           ELSE r.groupId = NoId /\ r.folderId = NoId /\ r.correlationId = NoId
        /\ r.error # NoError
               <=> r.status \in {"validation_error", "provisioning_error", "unknown_error"}
        /\ r.status = "sdk_unavailable" => (runs = handler.runs /\ ~handler.available)
        /\ r.status \in {"ok", "provisioning_error", "unknown_error"} =>
               (runs = handler.runs + 1 /\ handler.available)

C27_Witness ==
    /\ handler.pc = "done" /\ handler.entry = "handle_event" /\ handler.out = "returned"
    /\ handler.response.status = "ok"
    /\ handler.response.dashboardIds # <<>>
    /\ prev.status = "raised"
    /\ prev.err = "ProvisioningError"

\* C28: an invocation whose envelope data cannot be decoded ends as a
\* validation failure and issues no remote call.
C28_DecodeFailureIsValidationFailure ==
    \A p \in Workers :
        (w[p].event # <<>> /\ w[p].event.data = "undecodable") =>
            /\ w[p].pc = "done"
            /\ w[p].status = "validation_error"
            /\ w[p].existing = <<>> /\ ~w[p].created /\ ~w[p].updated

\* C37: with N interleaved ensure_group invocations for one name, at most N
\* groups of that name exist; an invocation whose search is answered when a
\* group of its name exists issues no create_group and takes the id of the
\* first group of its search result; when every invocation has ended the
\* groups do not change any more.
C37_RaceDuplicatesBounded ==
    [][/\ \A g \in GroupEmails :
              Count(groups', {x \in Range(groups') : x.name = g})
                  <= Cardinality({p \in Workers : w'[p].pc # "idle" /\ w'[p].group_email = g})
       /\ \A p \in Workers :
              (/\ w[p].pc = "search_groups" /\ w'[p].pc # "search_groups"
               /\ search_groups(w[p].group_email) # <<>>) =>
                  /\ w'[p].pc = "saml_config"
                  /\ ~w'[p].created
                  /\ w'[p].gid = search_groups(w[p].group_email)[1].id
                  /\ groups' = groups
       /\ \A p \in Workers : (w[p].existing # <<>> \/ w[p].pc = "done") => ~w'[p].created \/ w[p].created
       /\ (\A p \in Workers : w[p].pc = "done") => groups' = groups]_vars

C37_Witness ==
    /\ \A p \in Workers : w[p].status = "ok"
    /\ w[1].group_email = w[2].group_email
    /\ w[1].created /\ ~w[2].created
    /\ w[2].existing # <<>>
    /\ w[2].gid = w[1].gid
    /\ Count(groups, {x \in Range(groups) : x.name = w[1].group_email}) = 1

\* The folder carries the name decommission_project gives an archived folder.
Archived(folder) == folder.name # <<>> /\ folder.name[1] = "Archived:"

\* The folder with that id is an archived one.
ArchivedId(fs, folder_id) == \E k \in 1..Len(fs) : fs[k].id = folder_id /\ Archived(fs[k])

\* C33: a folder that decommission_project has renamed to "Archived: Project:
\* {projectId}" keeps its id and name on every later step; no provision run
\* takes it for its project folder, no decommission_project finds it and
\* update_folder is never issued for it.
C33_ArchivingIrreversible ==
    [][/\ \A k \in 1..Len(folders) :
              Archived(folders[k]) => (k <= Len(folders') /\ folders'[k] = folders[k])
       /\ (loc'.folder_id # loc.folder_id /\ loc'.folder_id # NoId) =>
              ~ArchivedId(folders', loc'.folder_id)
       /\ (dloc'.folder_id # dloc.folder_id /\ dloc'.folder_id # NoId) =>
              ~ArchivedId(folders', dloc'.folder_id)
       /\ dpc = "update_folder" => ~ArchivedId(folders, dloc.folder_id)]_vars

C33_Witness ==
    /\ Len(folders) = 2
    /\ Archived(folders[1]) /\ Archived(folders[2])
    /\ folders[1].name = folders[2].name
    /\ runs = 2 /\ pc = "returned" /\ loc.folder_id = 2
    /\ decoms = 2 /\ dpc = "returned" /\ dloc.folder_id = 2

\* C34: every dashboard id a provision run returns is the id of a dashboard
\* that lies in the folder whose id the same result returns.
C34_DashboardsInReturnedFolder ==
    [][(pc # "returned" /\ pc' = "returned") =>
           \A i \in 1..Len(loc'.result.dashboardIds) :
               \E d \in Range(dashboards') :
                   /\ d.id = loc'.result.dashboardIds[i]
                   /\ d.folder_id = loc'.result.folderId]_vars

\* The folders hold an archived folder of the project, and the last provision
\* run began before the latest of them was archived.
ArchivedSinceProvision(fs, project_id) ==
    \E k \in 1..Len(fs) :
        /\ fs[k].name = ArchivedName(FolderName(project_id))
        /\ \A j \in (k + 1)..Len(fs) : fs[j].name # ArchivedName(FolderName(project_id))
        /\ ~(k <= Len(start[2]) /\ start[2][k] = fs[k])

\* C38: a decommission_project that begins after a decommission_project of
\* the same project has archived its folder, with no provision run in
\* between, issues no write call, whatever its flags, and returns
\* archived_folder = false, deleted_dashboards = 0 and deleted_schedules = 0.
C38_DecommissionIdempotentAfterArchive ==
    (dpc # "idle" /\ ArchivedSinceProvision(dloc.start[1], dloc.project_id)) =>
        /\ \A i \in 1..Len(dcalls) : dcalls[i].m = "search_folders"
        /\ Len(dcalls) <= 1
        /\ <<folders, dashboards, scheduled_plans>> = dloc.start \/ dpc \in {"returned", "raised"}
        /\ dpc = "returned" =>
               dloc.results = [projectId |-> dloc.project_id, archived_folder |-> FALSE,
                               deleted_dashboards |-> 0, deleted_schedules |-> 0]

C38_Witness ==
    /\ decoms = 2 /\ dpc = "returned"
    /\ ArchivedSinceProvision(dloc.start[1], dloc.project_id)
    /\ dloc.archive_folder /\ dloc.delete_dashboards /\ dloc.delete_schedules
    /\ dashboards # <<>>
    /\ dcalls = <<[m |-> "search_folders", arg |-> FolderName(dloc.project_id), ok |-> TRUE]>>

\* No value occurs twice in the sequence.
Distinct(s) == \A i, j \in 1..Len(s) : s[i] = s[j] => i = j

\* C36: a provision run with pairwise distinct template ids that returns,
\* returns one dashboard id per template id, pairwise distinct, each the id of
\* a dashboard of the project folder.
C36_OneClonePerTemplate ==
    (pc = "returned" /\ Distinct(loc.template_dashboard_ids)) =>
        /\ Len(loc.result.dashboardIds) = Len(loc.template_dashboard_ids)
        /\ Distinct(loc.result.dashboardIds)
        /\ Cardinality({d \in Range(dashboards) : d.folder_id = loc.result.folderId})
               >= Len(loc.template_dashboard_ids)

\* C35: when a provision run returns, the SAML group list holds an entry
\* whose name is the run's group email and whose id is the group id the run
\* returns.
C35_SamlPointsAtProvisionedGroup ==
    [][(pc # "returned" /\ pc' = "returned") =>
           \E k \in 1..Len(saml_cfg') :
               /\ saml_cfg'[k].name = loc'.result.groupEmail
               /\ saml_cfg'[k].id = loc'.result.groupId]_vars

\* Records 1..n of the invocation are users of the platform, appended in
\* input order after the users it found, with the ids it collected, the roles
\* of their records and, for a group, membership of it.
BulkCreatedUpTo(n) ==
    /\ Len(users) >= Len(bulk.start[1]) + n
    /\ Len(bulk.user_ids) >= n
    /\ IsPrefix(bulk.start[1], users)
    /\ \A k \in 1..n :
           LET user == users[Len(bulk.start[1]) + k] IN
           /\ user.email = bulk.users[k].email
           /\ user.role_ids = bulk.users[k].role_ids
           /\ user.id = bulk.user_ids[k]
           /\ bulk.group_id # NoId =>
                  \E i \in 1..Len(group_users[bulk.group_id]) :
                      group_users[bulk.group_id][i] = bulk.user_ids[k]

\* C32: a bulk_provision_users that returns has created one user per record,
\* in input order, returns their ids in that order and, for a group, every
\* one of them is a member of it; when the creation of record k fails the
\* invocation raises ProvisioningError and the users of records 1..k-1 and
\* their memberships remain.
C32_BulkProvisionUsers ==
    /\ bulk.pc = "returned" =>
           /\ Len(bulk.user_ids) = Len(bulk.users)
           /\ Len(users) = Len(bulk.start[1]) + Len(bulk.users)
           /\ BulkCreatedUpTo(Len(bulk.users))
    /\ (bulk.pc = "raised" /\ bulk.at \in {"create_user", "set_user_roles"}) =>
           /\ bulk.err = "ProvisioningError"
           /\ BulkCreatedUpTo(bulk.i - 1)
    /\ (~BulkEnded /\ bulk.calls # <<>>) => bulk.calls[Len(bulk.calls)].ok

C32_Witness ==
    /\ bulk.n = 2
    /\ bulk.pc = "raised" /\ bulk.at = "create_user"
    /\ bulk.i = 2
    /\ bulk.group_id = 1
    /\ ~bulk.calls[Len(bulk.calls)].ok
    /\ Len(bulk.start[1]) = 2
    /\ Len(users) = 3
    /\ Len(group_users[1]) = 3

RequestedTemplates ==
    LET t == handler.event.fields.templateDashboardIds IN
    IF t.t = "missing" THEN handler.settings ELSE t.v

Oks(log) == [i \in 1..Len(log) |-> log[i].ok]

\* C31: every run has a correlation id no earlier run had; a run that is given
\* the request of an earlier run, starts from the platform state that run
\* started from and meets the same answers of the platform issues the same
\* remote calls, leaves the same platform state and ends the same way, with a
\* result that differs from the earlier one in correlationId only.
C31_CorrelationIdHasNoRole ==
    /\ (pc = "returned" /\ prev.status = "returned") =>
           loc.result.correlationId # prev.result.correlationId
    /\ (twin # NoTwin /\ Ended /\ Oks(calls) = Oks(twin.calls)) =>
           /\ Request(loc) = twin.request
           /\ calls = twin.calls
           /\ remote = twin.remote
           /\ pc = twin.status
           /\ loc.err = twin.err
           /\ pc = "returned" =>
                  /\ loc.result.correlationId # twin.result.correlationId
                  /\ [loc.result EXCEPT !.correlationId = NoId]
                         = [twin.result EXCEPT !.correlationId = NoId]

C31_Witness ==
    /\ twin # NoTwin
    /\ pc = "returned"
    /\ Oks(calls) = Oks(twin.calls)
    /\ \E i \in 1..Len(calls) : ~calls[i].ok
    /\ start[1] # <<>>
    /\ remote # start
    /\ Len(loc.result.dashboardIds) = 2
    /\ loc.result.correlationId = 3
    /\ twin.result.correlationId = 2

====
